---- MODULE Spec2Model ----
(***************************************************************************)
(* Model of the docker package of ygrebnov/testutils: the Container        *)
(* object (Create, Start, CreateStart, Stop, Remove, StopRemove,           *)
(* HasStarted), the package-level functions it calls, the lazily created   *)
(* shared client and the Docker engine behind the client handler.          *)
(*                                                                         *)
(* Strings that the code only compares or passes on are TLA+ strings;      *)
(* strings that the code inspects (status messages searched with           *)
(* strings.Contains, port mappings split with strings.Cut) are sequences   *)
(* of one-character strings.  The empty string is "" resp. << >>.          *)
(***************************************************************************)
EXTENDS Integers, Sequences, FiniteSets, TLC

\* Number of containers the engine can create in one behaviour.
MaxIds == 2
\* Largest explicitly configured Options.StartTimeout.
MaxStartTimeout == 2
MaxInvocations == 3

\* docker/client.go: const block
containerStateRunning == "running"
defaultContainerStartTimeout == 60

\* docker/client.go: error values
errEmptyContainerNameAndID == "empty container name and id"
errEmptyImageName == "empty image name"
errContainerNotFound == "container not found"
errContainerStartTimeout == "container start timeout"
errIncorrectPortConfig == "incorrect port configuration"

\* Errors produced by the Docker client library and the engine.
errNewClient == "NewClientWithOpts failed"
errImagePull == "ImagePull failed"
errContainerCreate == "ContainerCreate failed"
errContainerStart == "ContainerStart failed"
errContainerList == "ContainerList failed"
errContainerStop == "ContainerStop failed"
errContainerRemove == "ContainerRemove failed"
errNameConflict == "container name already in use"
errNoSuchContainer == "no such container"
errRemoveRunning == "cannot remove a running container"
errContextCanceled == "context canceled"
errContainerExecCreate == "ContainerExecCreate failed"
errContainerExecAttach == "ContainerExecAttach failed"
errNotRunning == "container is not running"

\* The controllers (container objects) of the model.
Ctl == {"a", "b"}

Chars(s) ==
    CASE s = "health: starting" ->
           <<"h","e","a","l","t","h",":"," ","s","t","a","r","t","i","n","g">>
      [] s = "Created" -> <<"C","r","e","a","t","e","d">>
      [] s = "Up" -> <<"U","p">>
      [] s = "Up (health: starting)" ->
           <<"U","p"," ","(","h","e","a","l","t","h",":"," ",
             "s","t","a","r","t","i","n","g",")">>
      [] s = "Up (healthy)" ->
           <<"U","p"," ","(","h","e","a","l","t","h","y",")">>
      [] s = "Exited (0)" -> <<"E","x","i","t","e","d"," ","(","0",")">>
      [] s = "8080:80" -> <<"8","0","8","0",":","8","0">>
      [] s = "80" -> <<"8","0">>
      [] s = "8080" -> <<"8","0","8","0">>
      [] s = "/tcp" ->
           <<"/","t","c","p">>
      [] s = "PGPORT" ->
           <<"P","G","P","O","R","T">>
      [] s = "POSTGRES_USER" ->
           <<"P","O","S","T","G","R","E","S","_","U","S","E","R">>
      [] s = "POSTGRES_PASSWORD" ->
           <<"P","O","S","T","G","R","E","S","_","P","A","S","S","W","O",
             "R","D">>
      [] s = "postgres" ->
           <<"p","o","s","t","g","r","e","s">>
      [] s = "PGPORT=5432" ->
           <<"P","G","P","O","R","T","=","5","4","3","2">>
      [] s = "5432:5432" ->
           <<"5","4","3","2",":","5","4","3","2">>
      [] s = "5432:5433" ->
           <<"5","4","3","2",":","5","4","3","3">>
      [] s = "MYVAR=my-var-value" ->
           <<"M","Y","V","A","R","=","m","y","-","v","a","r","-","v","a",
             "l","u","e">>
      [] s = "" -> << >>

\* strings.Contains
Contains(s, substr) ==
    \E i \in 1..(Len(s) + 1) :
        /\ i + Len(substr) - 1 <= Len(s)
        /\ SubSeq(s, i, i + Len(substr) - 1) = substr

\* strings.Cut: before and after the first occurrence of sep.
Cut(s, sep) ==
    IF \E i \in 1..Len(s) : s[i] = sep
    THEN LET i == CHOOSE k \in 1..Len(s) :
                     s[k] = sep /\ \A j \in 1..(k - 1) : s[j] # sep
         IN  [before |-> SubSeq(s, 1, i - 1),
              after |-> SubSeq(s, i + 1, Len(s)), found |-> TRUE]
    ELSE [before |-> s, after |-> << >>, found |-> FALSE]

(***************************************************************************)
(* The engine.  A container the engine does not hold is NoContainer.  Ids  *)
(* are "1", "2", ... in order of creation and never reused.                *)
(***************************************************************************)
Ids == {ToString(i) : i \in 1..MaxIds}

NoContainer ==
    [name |-> "", state |-> "absent", hc |-> FALSE, health |-> "none",
     image |-> "", env |-> << >>, ports |-> {}]

VARIABLES
    containers,  \* engine: id -> container record
    nextId,      \* engine: number of the next container to create
    cli,         \* package variable cli: 0 is nil, else a handle number
    handles,     \* number of handles the client factory has created
    closed,      \* handles whose Close method has been called
    err,         \* package variable err
    ctr,         \* controller -> container object
    pc,          \* controller -> position in the running method
    op,          \* controller -> method called by the user (last or running)
    ret,         \* controller -> error returned by the last finished method
    retStarted,  \* controller -> bool returned by the last HasStarted
    started,     \* controller -> local variable started of Start
    t,           \* controller -> local variable t of Start
    polls,       \* controller -> readiness results of the polls of Start
    log,         \* controller -> engine calls of the last or running method
    faults,      \* controller -> a library or engine call of it was failed
    prev,        \* controller -> the method before the current one, if it
                 \* is in Tracked and returned nil, else "none"
    cancelled,   \* controller -> the caller has cancelled the context that
                 \* it passed to the last or running method
    active,      \* controllers that the user operates
    database,    \* controller -> field database of the database container
    preset,      \* presets: the preset loaded from its values file
    called,      \* presets: the last constructor or preset function called
    built,       \* presets: what that call returned
    held,        \* goroutine -> handle of the client that getClient gave to
                 \* its call of a package-level function, 0 for none
    invoked      \* number of calls of the client factory by such calls

vars == <<containers, nextId, cli, handles, closed, err, ctr, pc, op, ret,
          retStarted, started, t, polls, log, faults, prev, cancelled,
          active, database, preset, called, built, held, invoked>>

\* The variables of the presets package and of the constructor calls.
presetVars == <<preset, called, built>>

\* The variables of the goroutines that call package-level functions
\* themselves.
clientVars == <<held, invoked>>

\* The state the package-level functions work on, as one value; h is the
\* handle of the client that getClient returned to the running function,
\* cancelled the state of the context that the function passes on.
World(c) ==
    [containers |-> containers, nextId |-> nextId, cli |-> cli,
     handles |-> handles, closed |-> closed, h |-> 0, log |-> log[c],
     faults |-> faults[c], cancelled |-> cancelled[c]]

\* An engine call and its outcome, appended to the log of the controller:
\* the error it returned and, for a list, the number of containers listed
\* and the engine's state and health of the first one.  closed tells that
\* the call went through a handle whose Close had been called before; the
\* engine serves such a call like any other.
Logged(w, call, key, arg, e, n, k) ==
    [w EXCEPT !.log = Append(@, [call |-> call, key |-> key, arg |-> arg,
                                 closed |-> w.h \in w.closed, err |-> e,
                                 n |-> n, state |-> k.state,
                                 health |-> k.health])]

Fault(w) == [w EXCEPT !.faults = TRUE]

\* A call of the handler with the context ctx fails if the engine fails it
\* or if ctx is cancelled; a cancelled context makes it fail with the
\* error of the context, without effect on the engine.
Failed(w, fail) == fail \/ w.cancelled
Failure(w, e) == IF w.cancelled THEN errContextCanceled ELSE e

\* Status message of a container as the engine lists it.
StatusOf(k) ==
    CASE k.state = "created" -> Chars("Created")
      [] k.state = "exited" -> Chars("Exited (0)")
      [] k.state = "running" /\ k.health = "starting" ->
           Chars("Up (health: starting)")
      [] k.state = "running" /\ k.health = "healthy" -> Chars("Up (healthy)")
      [] OTHER -> Chars("Up")

Exists(w, id) == id \in Ids /\ w.containers[id].state # "absent"

\* handler.ImagePull and reading the response
ImagePull(w, name, fail) ==
    LET e == IF Failed(w, fail) THEN Failure(w, errImagePull) ELSE "nil"
        w1 == Logged(w, "ImagePull", "image", name, e, 0, NoContainer)
    IN  [w |-> IF Failed(w, fail) THEN Fault(w1) ELSE w1, err |-> e]

\* handler.ContainerCreate
ContainerCreate(w, image, env, name, hc, ports, fail) ==
    LET id == ToString(w.nextId)
        e == IF Failed(w, fail) THEN Failure(w, errContainerCreate)
             ELSE IF name # "" /\ \E i \in Ids : /\ Exists(w, i)
                                                 /\ w.containers[i].name = name
             THEN errNameConflict
             ELSE "nil"
        w1 == Logged(w, "ContainerCreate", "name", name, e, 0, NoContainer)
    IN  IF e # "nil"
        THEN [w |-> IF Failed(w, fail) THEN Fault(w1) ELSE w1,
              id |-> "", err |-> e]
        ELSE [w |-> [w1 EXCEPT !.nextId = @ + 1,
                               !.containers[id] =
                                   [name |-> name, state |-> "created",
                                    hc |-> hc, health |-> "none",
                                    image |-> image, env |-> env,
                                    ports |-> ports]],
              id |-> id, err |-> "nil"]

\* handler.ContainerStart
ContainerStart(w, id, fail) ==
    LET e == IF Failed(w, fail) THEN Failure(w, errContainerStart)
             ELSE IF ~Exists(w, id) THEN errNoSuchContainer
             ELSE "nil"
        w1 == Logged(w, "ContainerStart", "id", id, e, 0, NoContainer)
    IN  IF e # "nil"
        THEN [w |-> IF Failed(w, fail) THEN Fault(w1) ELSE w1, err |-> e]
        ELSE IF w.containers[id].state = "running"
        THEN [w |-> w1, err |-> "nil"]
        ELSE [w |-> [w1 EXCEPT !.containers[id].state = "running",
                               !.containers[id].health =
                                   IF w.containers[id].hc THEN "starting"
                                   ELSE "none"],
              err |-> "nil"]

\* handler.ContainerList with All: true and a name or an id filter
ContainerList(w, key, arg, fail) ==
    LET match(i) == /\ Exists(w, i)
                    /\ IF key = "name" THEN w.containers[i].name = arg
                       ELSE i = arg
        found == SelectSeq([n \in 1..MaxIds |-> ToString(n)], match)
        list == [n \in 1..Len(found) |->
                   [ID |-> found[n],
                    State |-> w.containers[found[n]].state,
                    Status |-> StatusOf(w.containers[found[n]])]]
    IN  IF Failed(w, fail)
        THEN [w |-> Fault(Logged(w, "ContainerList", key, arg,
                                 Failure(w, errContainerList), 0,
                                 NoContainer)),
              list |-> << >>, err |-> Failure(w, errContainerList)]
        ELSE [w |-> Logged(w, "ContainerList", key, arg, "nil", Len(found),
                           IF Len(found) = 0 THEN NoContainer
                           ELSE w.containers[found[1]]),
              list |-> list, err |-> "nil"]

\* handler.ContainerStop
ContainerStop(w, id, fail) ==
    LET e == IF Failed(w, fail) THEN Failure(w, errContainerStop)
             ELSE IF ~Exists(w, id) THEN errNoSuchContainer
             ELSE "nil"
        w1 == Logged(w, "ContainerStop", "id", id, e, 0, NoContainer)
    IN  IF e # "nil"
        THEN [w |-> IF Failed(w, fail) THEN Fault(w1) ELSE w1, err |-> e]
        ELSE IF w.containers[id].state = "running"
        THEN [w |-> [w1 EXCEPT !.containers[id].state = "exited",
                               !.containers[id].health = "none"],
              err |-> "nil"]
        ELSE [w |-> w1, err |-> "nil"]

\* handler.ContainerRemove without Force
ContainerRemove(w, id, fail) ==
    LET e == IF Failed(w, fail) THEN Failure(w, errContainerRemove)
             ELSE IF ~Exists(w, id) THEN errNoSuchContainer
             ELSE IF w.containers[id].state = "running" THEN errRemoveRunning
             ELSE "nil"
        w1 == Logged(w, "ContainerRemove", "id", id, e, 0, NoContainer)
    IN  IF e # "nil"
        THEN [w |-> IF Failed(w, fail) THEN Fault(w1) ELSE w1, err |-> e]
        ELSE [w |-> [w1 EXCEPT !.containers[id] = NoContainer], err |-> "nil"]

\* handler.ContainerExecCreate for the command bash -c command; the log
\* entry carries the command as its key and the id as its argument.
ContainerExecCreate(w, id, command, fail) ==
    LET e == IF Failed(w, fail) THEN Failure(w, errContainerExecCreate)
             ELSE IF ~Exists(w, id) THEN errNoSuchContainer
             ELSE IF w.containers[id].state # "running" THEN errNotRunning
             ELSE "nil"
        w1 == Logged(w, "ContainerExecCreate", command, id, e, 0, NoContainer)
    IN  [w |-> IF Failed(w, fail) THEN Fault(w1) ELSE w1, err |-> e]

\* handler.ContainerExecAttach for the exec created in container id, and
\* the copy of its output.
ContainerExecAttach(w, id, fail) ==
    LET e == IF Failed(w, fail) THEN Failure(w, errContainerExecAttach)
             ELSE "nil"
        w1 == Logged(w, "ContainerExecAttach", "exec", id, e, 0, NoContainer)
    IN  [w |-> IF Failed(w, fail) THEN Fault(w1) ELSE w1, err |-> e]

(***************************************************************************)
(* defaultClient and the package variable cli.                             *)
(***************************************************************************)

\* newClient: the factory may fail; a new client is stored in cli.
newClient(w, ok) ==
    IF ~ok THEN [w |-> Fault(w), err |-> errNewClient]
    ELSE [w |-> [w EXCEPT !.handles = @ + 1, !.cli = w.handles + 1,
                          !.h = w.handles + 1],
          err |-> "nil"]

\* getClient: the stored client, or a new one.
getClient(w, ok) ==
    IF w.cli # 0 THEN [w |-> [w EXCEPT !.h = w.cli], err |-> "nil"]
    ELSE newClient(w, ok)

\* defaultClient.close
close(w) == [w EXCEPT !.closed = @ \cup {w.h}]

\* defaultClient.pullImage
pullImage(w, name, fail) == ImagePull(w, name, fail)

\* The loop of createContainer over options.ExposedPorts: the port
\* bindings, keyed by container port (a port number and "/tcp"); ok is
\* FALSE for a string without ':'.
PortBindings(exposedPorts) ==
    LET Bind[i \in 0..Len(exposedPorts)] ==
            IF i = 0 THEN [ok |-> TRUE, bindings |-> {}]
            ELSE LET cut == Cut(exposedPorts[i], ":")
                     hostPortString == cut.before
                     containerPortString == cut.after
                     containerPort == containerPortString \o Chars("/tcp")
                 IN  IF ~Bind[i - 1].ok \/ ~cut.found
                     THEN [ok |-> FALSE, bindings |-> {}]
                     ELSE [ok |-> TRUE,
                           bindings |->
                             {b \in Bind[i - 1].bindings :
                                 b.containerPort # containerPort}
                             \cup {[containerPort |-> containerPort,
                                    hostPort |-> hostPortString]}]
    IN  Bind[Len(exposedPorts)]

\* Variant of createContainer that goes on to ContainerCreate after a
\* failed pull and returns the result of the create.
createContainerIgnoresPullError(w, image, options, failPull, failCreate) ==
    LET portBindings == PortBindings(options.ExposedPorts)
    IN  IF ~portBindings.ok
        THEN [w |-> w, id |-> "", err |-> errIncorrectPortConfig]
        ELSE LET p == pullImage(w, image, failPull)
             IN  ContainerCreate(p.w, image, options.EnvironmentVariables,
                                 options.Name, options.Healthcheck # "",
                                 portBindings.bindings, failCreate)

\* defaultClient.createContainer
createContainer(w, image, options, failPull, failCreate) ==
    LET portBindings == PortBindings(options.ExposedPorts)
    IN  IF ~portBindings.ok
        THEN [w |-> w, id |-> "", err |-> errIncorrectPortConfig]
        ELSE LET p == pullImage(w, image, failPull)
             IN  IF p.err # "nil" THEN [w |-> p.w, id |-> "", err |-> p.err]
                 ELSE ContainerCreate(p.w, image, options.EnvironmentVariables,
                                      options.Name, options.Healthcheck # "",
                                      portBindings.bindings, failCreate)

\* defaultClient.startContainer
startContainer(w, id, fail) == ContainerStart(w, id, fail)

\* container.getName
getName(container) == container.options.Name

\* Variant of fetchContainerData without the check for an empty name and id.
clientFetchContainerDataNoValidation(w, container, fail) ==
    LET containerName == getName(container)
        r == IF containerName # ""
             THEN ContainerList(w, "name", containerName, fail)
             ELSE ContainerList(w, "id", container.id, fail)
    IN  IF r.err # "nil"
        THEN [w |-> r.w, container |-> container, err |-> r.err]
        ELSE IF Len(r.list) = 0
        THEN [w |-> r.w, container |-> container,
              err |-> errContainerNotFound]
        ELSE [w |-> r.w,
              container |-> [container EXCEPT !.id = r.list[1].ID,
                                              !.state = r.list[1].State,
                                              !.status = r.list[1].Status],
              err |-> "nil"]

\* Variant of fetchContainerData that empties the id, the state and the
\* status of the object when the list finds no container.
clientFetchContainerDataClearsOnNotFound(w, container, fail) ==
    LET containerName == getName(container)
    IN  IF containerName = "" /\ container.id = ""
        THEN [w |-> w, container |-> container,
              err |-> errEmptyContainerNameAndID]
        ELSE LET r == IF containerName # ""
                      THEN ContainerList(w, "name", containerName, fail)
                      ELSE ContainerList(w, "id", container.id, fail)
             IN  IF r.err # "nil"
                 THEN [w |-> r.w, container |-> container, err |-> r.err]
                 ELSE IF Len(r.list) = 0
                 THEN [w |-> r.w,
                       container |-> [container EXCEPT !.id = "",
                                                       !.state = "",
                                                       !.status = << >>],
                       err |-> errContainerNotFound]
                 ELSE [w |-> r.w,
                       container |-> [container EXCEPT
                                        !.id = r.list[1].ID,
                                        !.state = r.list[1].State,
                                        !.status = r.list[1].Status],
                       err |-> "nil"]

\* defaultClient.fetchContainerData: the container object after the fetch
\* is part of the result.
clientFetchContainerData(w, container, fail) ==
    LET containerName == getName(container)
    IN  IF containerName = "" /\ container.id = ""
        THEN [w |-> w, container |-> container,
              err |-> errEmptyContainerNameAndID]
        ELSE LET r == IF containerName # ""
                      THEN ContainerList(w, "name", containerName, fail)
                      ELSE ContainerList(w, "id", container.id, fail)
             IN  IF r.err # "nil"
                 THEN [w |-> r.w, container |-> container, err |-> r.err]
                 ELSE IF Len(r.list) = 0
                 THEN [w |-> r.w, container |-> container,
                       err |-> errContainerNotFound]
                 ELSE [w |-> r.w,
                       container |-> [container EXCEPT
                                        !.id = r.list[1].ID,
                                        !.state = r.list[1].State,
                                        !.status = r.list[1].Status],
                       err |-> "nil"]

\* defaultClient.stopContainer
stopContainer(w, id, fail) == ContainerStop(w, id, fail)

\* defaultClient.removeContainer
removeContainer(w, id, fail) == ContainerRemove(w, id, fail)

\* Variant of execCommand that lists the container before the exec and
\* returns the error of the list.
execCommandChecksFirst(w, id, command, failCreate, failAttach) ==
    LET l == ContainerList(w, "id", id, FALSE)
    IN  IF Len(l.list) = 0 THEN [w |-> l.w, err |-> errContainerNotFound]
        ELSE LET r == ContainerExecCreate(l.w, id, command, failCreate)
             IN  IF r.err # "nil" THEN r
                 ELSE ContainerExecAttach([r.w EXCEPT !.cancelled = FALSE],
                                          id, failAttach)

\* defaultClient.execCommand: the attach is made with the background
\* context, not with ctx.
execCommand(w, id, command, failCreate, failAttach) ==
    LET r == ContainerExecCreate(w, id, command, failCreate)
    IN  IF r.err # "nil" THEN r
        ELSE ContainerExecAttach([r.w EXCEPT !.cancelled = FALSE], id,
                                 failAttach)

\* Variant of stopRemoveContainer that stops and does not remove.
stopRemoveContainerStopOnly(w, id, failStop, failRemove) ==
    stopContainer(w, id, failStop)

\* Variant of stopRemoveContainer that removes also after a failed stop.
stopRemoveContainerIgnoresStopError(w, id, failStop, failRemove) ==
    LET s == stopContainer(w, id, failStop)
    IN  removeContainer(s.w, id, failRemove)

\* defaultClient.stopRemoveContainer
stopRemoveContainer(w, id, failStop, failRemove) ==
    LET s == stopContainer(w, id, failStop)
    IN  IF s.err # "nil" THEN s ELSE removeContainer(s.w, id, failRemove)

(***************************************************************************)
(* The package-level functions: get the client, defer its close, call.     *)
(* nd holds the outcomes the environment chooses: ok for the client        *)
(* factory (called only while cli is nil), f1 and f2 for the first and     *)
(* second engine call of a function that makes n of them.                  *)
(***************************************************************************)
Outcomes(n) ==
    [ok : IF cli = 0 THEN BOOLEAN ELSE {TRUE}, f1 : BOOLEAN,
     f2 : IF n > 1 THEN BOOLEAN ELSE {FALSE}]

\* Variant of PullImage without the check for an empty image name.
PullImageNoValidation(w, name, nd) ==
    LET g == getClient(w, nd.ok)
    IN  IF g.err # "nil" THEN g
        ELSE LET r == pullImage(g.w, name, nd.f1)
             IN  [w |-> close(r.w), err |-> r.err]

\* PullImage: an empty image name is rejected before the client is got.
PullImage(w, name, nd) ==
    IF name = "" THEN [w |-> w, err |-> errEmptyImageName]
    ELSE LET g == getClient(w, nd.ok)
         IN  IF g.err # "nil" THEN g
             ELSE LET r == pullImage(g.w, name, nd.f1)
                  IN  [w |-> close(r.w), err |-> r.err]

CreateContainer(w, image, options, nd) ==
    LET g == getClient(w, nd.ok)
    IN  IF g.err # "nil" THEN [w |-> g.w, id |-> "", err |-> g.err]
        ELSE LET r == createContainer(g.w, image, options, nd.f1, nd.f2)
             IN  [w |-> close(r.w), id |-> r.id, err |-> r.err]

StartContainer(w, id, nd) ==
    LET g == getClient(w, nd.ok)
    IN  IF g.err # "nil" THEN g
        ELSE LET r == startContainer(g.w, id, nd.f1)
             IN  [w |-> close(r.w), err |-> r.err]

fetchContainerData(w, container, nd) ==
    LET g == getClient(w, nd.ok)
    IN  IF g.err # "nil"
        THEN [w |-> g.w, container |-> container, err |-> g.err]
        ELSE LET r == clientFetchContainerData(g.w, container, nd.f1)
             IN  [w |-> close(r.w), container |-> r.container, err |-> r.err]

StopContainer(w, id, nd) ==
    LET g == getClient(w, nd.ok)
    IN  IF g.err # "nil" THEN g
        ELSE LET r == stopContainer(g.w, id, nd.f1)
             IN  [w |-> close(r.w), err |-> r.err]

RemoveContainer(w, id, nd) ==
    LET g == getClient(w, nd.ok)
    IN  IF g.err # "nil" THEN g
        ELSE LET r == stopContainer(g.w, id, nd.f1)
             IN  [w |-> close(r.w), err |-> r.err]

StopRemoveContainer(w, id, nd) ==
    LET g == getClient(w, nd.ok)
    IN  IF g.err # "nil" THEN g
        ELSE LET r == stopRemoveContainer(g.w, id, nd.f1, nd.f2)
             IN  [w |-> close(r.w), err |-> r.err]

ExecCommand(w, id, command, nd) ==
    LET g == getClient(w, nd.ok)
    IN  IF g.err # "nil" THEN g
        ELSE LET r == execCommand(g.w, id, command, nd.f1, nd.f2)
             IN  [w |-> close(r.w), err |-> r.err]

(***************************************************************************)
(* The container object and its constructors.                              *)
(***************************************************************************)

\* Variant of NewContainerWithOptions that keeps a StartTimeout of 0.
NewContainerWithOptionsKeepsZero(image, options) ==
    [id |-> "", image |-> image, state |-> "", status |-> << >>,
     options |-> options]

\* NewContainerWithOptions
NewContainerWithOptions(image, options) ==
    [id |-> "", image |-> image, state |-> "", status |-> << >>,
     options |-> IF options.StartTimeout = 0
                 THEN [options EXCEPT
                         !.StartTimeout = defaultContainerStartTimeout]
                 ELSE options]

\* The zero value of Options
ZeroOptions ==
    [Name |-> "", Healthcheck |-> "", EnvironmentVariables |-> << >>,
     ExposedPorts |-> << >>, StartTimeout |-> 0]

\* NewContainer
NewContainer(image) == NewContainerWithOptions(image, ZeroOptions)

\* The zero value of Database
ZeroDatabase == [Name |-> "", ResetCommand |-> ""]

\* NewDatabaseContainerWithOptions: a container object and its database.
NewDatabaseContainerWithOptions(image, db, options) ==
    [container |->
         [id |-> "", image |-> image, state |-> "", status |-> << >>,
          options |-> IF options.StartTimeout = 0
                      THEN [options EXCEPT
                              !.StartTimeout = defaultContainerStartTimeout]
                      ELSE options],
     database |-> db]

\* NewDatabaseContainer
NewDatabaseContainer(image, db) ==
    NewDatabaseContainerWithOptions(image, db, ZeroOptions)

(***************************************************************************)
(* The presets package.  A preset is the record the values file is parsed  *)
(* into.  The value of an env declaration has the type the parser gave it: *)
(* int, string or another one.  A pointer to Options is a sequence: << >>  *)
(* is nil, <<o>> points to o.  A function that can panic returns a record  *)
(* with the field panic.                                                   *)
(***************************************************************************)
IntValue(n) == [type |-> "int", int |-> n, string |-> << >>]
StringValue(str) == [type |-> "string", int |-> 0, string |-> str]
OtherValue == [type |-> "bool", int |-> 0, string |-> << >>]

Digit(d) ==
    CASE d = 0 -> "0" [] d = 1 -> "1" [] d = 2 -> "2" [] d = 3 -> "3"
      [] d = 4 -> "4" [] d = 5 -> "5" [] d = 6 -> "6" [] d = 7 -> "7"
      [] d = 8 -> "8" [] d = 9 -> "9"

\* The decimal digits of a natural number, most significant first.
RECURSIVE FormatUint(_)
FormatUint(n) ==
    IF n < 10 THEN <<Digit(n)>>
    ELSE FormatUint(n \div 10) \o <<Digit(n % 10)>>

\* Variant of strconv.Itoa that leaves out the sign.
ItoaUnsigned(n) == IF n < 0 THEN FormatUint(-n) ELSE FormatUint(n)

\* strconv.Itoa
Itoa(n) == IF n < 0 THEN <<"-">> \o FormatUint(-n) ELSE FormatUint(n)

\* envs.toSlice: one "name=value" string per declaration, in order; panics
\* at the first value that is neither an int nor a string.
toSlice(e) ==
    LET Slice[i \in 0..Len(e)] ==
            IF i = 0 THEN [panic |-> FALSE, slice |-> << >>]
            ELSE IF Slice[i - 1].panic THEN Slice[i - 1]
            ELSE IF e[i].Value.type = "int"
            THEN [panic |-> FALSE,
                  slice |-> Append(Slice[i - 1].slice,
                                   e[i].Name \o <<"=">>
                                       \o Itoa(e[i].Value.int))]
            ELSE IF e[i].Value.type = "string"
            THEN [panic |-> FALSE,
                  slice |-> Append(Slice[i - 1].slice,
                                   e[i].Name \o <<"=">> \o e[i].Value.string)]
            ELSE [panic |-> TRUE, slice |-> << >>]
    IN  Slice[Len(e)]

\* defaultContainerPreset.getPresetContainerOptions
getPresetContainerOptions(p) ==
    LET env == toSlice(p.Container.Env)
    IN  [panic |-> env.panic,
         options |-> [Name |-> p.Container.Name,
                      Healthcheck |-> p.Container.Healthcheck,
                      EnvironmentVariables |-> env.slice,
                      ExposedPorts |-> p.Container.Ports,
                      StartTimeout |-> 0]]

\* Variant of combineContainerOptions that appends the ports of the
\* override to those of the preset.
combineContainerOptionsAppendsPorts(p, options) ==
    LET preset0 == getPresetContainerOptions(p)
        combinedOptions == preset0.options
    IN  IF preset0.panic \/ options = << >> THEN preset0
        ELSE LET o == options[1]
             IN  [panic |-> FALSE,
                  options |->
                    [Name |-> IF o.Name # "" THEN o.Name
                              ELSE combinedOptions.Name,
                     EnvironmentVariables |->
                         IF Len(o.EnvironmentVariables) > 0
                         THEN o.EnvironmentVariables
                         ELSE combinedOptions.EnvironmentVariables,
                     ExposedPorts |->
                         combinedOptions.ExposedPorts \o o.ExposedPorts,
                     Healthcheck |-> IF o.Healthcheck # "" THEN o.Healthcheck
                                     ELSE combinedOptions.Healthcheck,
                     StartTimeout |-> IF o.StartTimeout > 0
                                      THEN o.StartTimeout
                                      ELSE combinedOptions.StartTimeout]]

\* defaultContainerPreset.combineContainerOptions
combineContainerOptions(p, options) ==
    LET preset0 == getPresetContainerOptions(p)
        combinedOptions == preset0.options
    IN  IF preset0.panic \/ options = << >> THEN preset0
        ELSE LET o == options[1]
             IN  [panic |-> FALSE,
                  options |->
                    [Name |-> IF o.Name # "" THEN o.Name
                              ELSE combinedOptions.Name,
                     EnvironmentVariables |->
                         IF Len(o.EnvironmentVariables) > 0
                         THEN o.EnvironmentVariables
                         ELSE combinedOptions.EnvironmentVariables,
                     ExposedPorts |->
                         IF Len(o.ExposedPorts) > 0 THEN o.ExposedPorts
                         ELSE combinedOptions.ExposedPorts,
                     Healthcheck |-> IF o.Healthcheck # "" THEN o.Healthcheck
                                     ELSE combinedOptions.Healthcheck,
                     StartTimeout |-> IF o.StartTimeout > 0
                                      THEN o.StartTimeout
                                      ELSE combinedOptions.StartTimeout]]

\* What a constructor or a preset function returns: a container object,
\* with a database for a database container; nothing if it panicked.
Plain(container) ==
    [panic |-> FALSE, kind |-> "container", container |-> container,
     database |-> ZeroDatabase]
WithDatabase(dc) ==
    [panic |-> FALSE, kind |-> "database", container |-> dc.container,
     database |-> dc.database]
Panicked ==
    [panic |-> TRUE, kind |-> "none", container |-> NewContainer(""),
     database |-> ZeroDatabase]
NotBuilt == [Panicked EXCEPT !.panic = FALSE]

\* defaultContainerPreset.asContainer
asContainer(p) ==
    LET o == getPresetContainerOptions(p)
    IN  IF o.panic THEN Panicked
        ELSE Plain(NewContainerWithOptions(p.Image.Name, o.options))

\* Variant of asCustomizedContainer that does not use the given options.
asCustomizedContainerIgnoresOptions(p, options) ==
    LET o == getPresetContainerOptions(p)
    IN  IF o.panic THEN Panicked
        ELSE Plain(NewContainerWithOptions(p.Image.Name, o.options))

\* defaultContainerPreset.asCustomizedContainer
asCustomizedContainer(p, options) ==
    LET o == combineContainerOptions(p, options)
    IN  IF o.panic THEN Panicked
        ELSE Plain(NewContainerWithOptions(p.Image.Name, o.options))

\* defaultDatabaseContainerPreset.getPresetDatabase
getPresetDatabase(p) ==
    [Name |-> p.Database.Name, ResetCommand |-> p.Database.ResetCommand]

\* defaultDatabaseContainerPreset.asContainer
databaseAsContainer(p) ==
    LET o == getPresetContainerOptions(p)
    IN  IF o.panic THEN Panicked
        ELSE WithDatabase(NewDatabaseContainerWithOptions(
                              p.Image.Name, getPresetDatabase(p), o.options))

\* defaultDatabaseContainerPreset.asCustomizedContainer
databaseAsCustomizedContainer(p, options) ==
    LET o == combineContainerOptions(p, <<options>>)
    IN  IF o.panic THEN Panicked
        ELSE WithDatabase(NewDatabaseContainerWithOptions(
                              p.Image.Name, getPresetDatabase(p), o.options))

\* Variant of HasStarted that looks at the state only.
HasStartedResultStateOnly(container, e) ==
    IF e # "nil" THEN [started |-> FALSE, err |-> e]
    ELSE [started |-> container.state = containerStateRunning, err |-> "nil"]

\* The result of HasStarted once fetchData has returned e.
HasStartedResult(container, e) ==
    IF e # "nil" THEN [started |-> FALSE, err |-> e]
    ELSE [started |-> /\ container.state = containerStateRunning
                      /\ ~Contains(container.status, Chars("health: starting")),
          err |-> "nil"]

Methods ==
    {"Create", "Start", "CreateStart", "Stop", "Remove", "StopRemove",
     "HasStarted", "ResetDatabase"}

\* The inputs of the model: image and options of the container object.
BaseOptions == [ZeroOptions EXCEPT !.Name = "web", !.StartTimeout = 1]

Configs ==
    {[image |-> "img",
      options |-> [BaseOptions EXCEPT !.Name = n, !.Healthcheck = h,
                                      !.StartTimeout = st]] :
        n \in {"", "web"}, h \in {"", "pg_isready"}, st \in 1..MaxStartTimeout}
    \cup {[image |-> "img", options |-> ZeroOptions],
          [image |-> "", options |-> BaseOptions]}
    \cup {[image |-> "img", options |-> [BaseOptions EXCEPT !.ExposedPorts = p]] :
            p \in {<<Chars("8080:80")>>, <<Chars("80")>>}}

\* What the engine may hold under the name "web" before the first call.
Existing ==
    {NoContainer,
     [NoContainer EXCEPT !.name = "web", !.image = "img", !.state = "running",
                         !.hc = TRUE, !.health = "starting"]}

\* postgresqlPreset: the values of postgresql.yaml
postgresqlPreset ==
    [Container |->
         [Name |-> "",
          Env |-> <<[Name |-> Chars("POSTGRES_USER"),
                     Value |-> StringValue(Chars("postgres"))],
                    [Name |-> Chars("POSTGRES_PASSWORD"),
                     Value |-> StringValue(Chars("postgres"))],
                    [Name |-> Chars("PGPORT"), Value |-> IntValue(5432)]>>,
          Ports |-> <<Chars("5432:5432")>>,
          Healthcheck |-> "pg_isready"],
     Image |-> [Name |-> "postgres"],
     Database |->
         [Name |-> "postgres",
          ResetCommand |-> "dropdb -f --username=postgres -e postgres; createdb --username=postgres -e postgres"]]

\* A preset with an image and a database only.
imagePreset ==
    [Container |-> [Name |-> "", Env |-> << >>, Ports |-> << >>,
                    Healthcheck |-> ""],
     Image |-> [Name |-> "postgres"],
     Database |-> [Name |-> "testdb",
                   ResetCommand |-> "dropdb -f testdb; createdb testdb"]]

\* Largest absolute value of the small integers among the env values.
MaxEnvInt == 12

\* The inputs of the presets: the values of env declarations, the presets
\* and the options that callers pass.
EnvValues ==
    {IntValue(n) : n \in (-MaxEnvInt..MaxEnvInt) \cup {5432}}
    \cup {StringValue(Chars("postgres")), StringValue(<< >>), OtherValue}

Presets ==
    {postgresqlPreset, imagePreset,
     [postgresqlPreset EXCEPT !.Container.Name = "postgresqlPresetContainer"]}
    \cup {[imagePreset EXCEPT
             !.Container.Env = <<[Name |-> Chars("PGPORT"), Value |-> v]>>] :
            v \in EnvValues}
    \cup {[postgresqlPreset EXCEPT !.Container.Env[2].Value = OtherValue]}

CallerOptions ==
    [Name : {"", "db"}, Healthcheck : {"", "true"},
     EnvironmentVariables : {<< >>, <<Chars("MYVAR=my-var-value")>>},
     ExposedPorts : {<< >>, <<Chars("5432:5433")>>},
     StartTimeout : (-1)..MaxStartTimeout]

NoCall == [fn |-> "none", options |-> << >>]

\* The package variable postgresqlPreset is set when the package is loaded.
InitPresets ==
    /\ preset = postgresqlPreset
    /\ called = NoCall
    /\ built = NotBuilt

InitPackage ==
    /\ cli = 0
    /\ handles = 0
    /\ closed = {}
    /\ err = "nil"

InitEngine ==
    \E k \in Existing :
        /\ containers = [i \in Ids |-> IF i = "1" THEN k ELSE NoContainer]
        /\ nextId = IF k = NoContainer THEN 1 ELSE 2

InitClient ==
    /\ held = [g \in Ctl |-> 0]
    /\ invoked = 0

InitMethods ==
    /\ pc = [c \in Ctl |-> "idle"]
    /\ op = [c \in Ctl |-> "none"]
    /\ ret = [c \in Ctl |-> "nil"]
    /\ retStarted = [c \in Ctl |-> FALSE]
    /\ started = [c \in Ctl |-> FALSE]
    /\ t = [c \in Ctl |-> 0]
    /\ polls = [c \in Ctl |-> << >>]
    /\ log = [c \in Ctl |-> << >>]
    /\ faults = [c \in Ctl |-> FALSE]
    /\ prev = [c \in Ctl |-> "none"]
    /\ cancelled = [c \in Ctl |-> FALSE]

\* One database container object, a, used by one goroutine: its methods
\* are called one after the other.  The object b is not used.
Init ==
    /\ InitPackage
    /\ InitEngine
    /\ InitMethods
    /\ active = {"a"}
    /\ InitPresets
    /\ InitClient
    /\ \E cf \in Configs :
           LET dc == NewDatabaseContainerWithOptions(
                         cf.image, getPresetDatabase(postgresqlPreset),
                         cf.options)
           IN  /\ ctr = [c \in Ctl |-> IF c = "a" THEN dc.container
                                        ELSE NewContainer("img")]
               /\ database = [c \in Ctl |-> IF c = "a" THEN dc.database
                                             ELSE ZeroDatabase]

(***************************************************************************)
(* Steps of the methods.  A step runs from one assignment of the package   *)
(* variable err to the next one, or to the return of the method: it reads  *)
(* err where the code reads it and ends with the call whose result the     *)
(* code assigns to err.                                                    *)
(***************************************************************************)
SetWorld(c, w) ==
    /\ containers' = w.containers
    /\ nextId' = w.nextId
    /\ cli' = w.cli
    /\ handles' = w.handles
    /\ closed' = w.closed
    /\ log' = [log EXCEPT ![c] = w.log]
    /\ faults' = [faults EXCEPT ![c] = w.faults]

\* The world at the entry of a method: nothing logged for it yet, and the
\* context that the caller passes to it not cancelled.
Entry(c) ==
    [World(c) EXCEPT !.log = << >>, !.faults = FALSE, !.cancelled = FALSE]

\* The methods whose success the model remembers over the next call.
Tracked == {"Remove", "StopRemove", "CreateStart"}

\* The user calls method m of an idle container object.
Enter(c, m) ==
    /\ c \in active
    /\ pc[c] = "idle"
    /\ op' = [op EXCEPT ![c] = m]
    /\ prev' = [prev EXCEPT ![c] = IF op[c] \in Tracked /\ ret[c] = "nil"
                                   THEN op[c] ELSE "none"]
    /\ cancelled' = [cancelled EXCEPT ![c] = FALSE]

\* The method called by the user returns e.
Finish(c, e) ==
    /\ pc' = [pc EXCEPT ![c] = "idle"]
    /\ ret' = [ret EXCEPT ![c] = e]

UnchangedWorld == UNCHANGED <<containers, nextId, cli, handles, closed, log,
                              faults>>
UnchangedStart == UNCHANGED <<started, t, polls>>
ResetStart(c) ==
    /\ started' = [started EXCEPT ![c] = FALSE]
    /\ t' = [t EXCEPT ![c] = 0]
    /\ polls' = [polls EXCEPT ![c] = << >>]

\* Create, up to the assignment of PullImage's result to err.
CreatePull(c, w, nd) ==
    LET r == PullImage(w, ctr[c].image, nd)
    IN  /\ SetWorld(c, r.w)
        /\ err' = r.err
        /\ pc' = [pc EXCEPT ![c] = "Create_pulled"]

Create(c) ==
    /\ Enter(c, "Create")
    /\ \E nd \in Outcomes(1) : CreatePull(c, Entry(c), nd)
    /\ ResetStart(c)
    /\ UNCHANGED <<ctr, ret, retStarted, active, database, presetVars, clientVars>>

\* Create returns e: to the user, or to CreateStart, which assigns it to err.
CreateReturns(c, e) ==
    IF op[c] = "Create"
    THEN Finish(c, e) /\ UNCHANGED err
    ELSE /\ err' = e
         /\ pc' = [pc EXCEPT ![c] = "CreateStart_created"]
         /\ UNCHANGED ret

\* Variant of Create that does not assign the id CreateContainer returns.
CreateAfterPullDropsId(c) ==
    /\ pc[c] = "Create_pulled"
    /\ IF err # "nil"
       THEN /\ CreateReturns(c, err)
            /\ UnchangedWorld
       ELSE /\ nextId <= MaxIds
            /\ \E nd \in Outcomes(2) :
                 LET r == CreateContainer(World(c), ctr[c].image,
                                          ctr[c].options, nd)
                 IN  /\ SetWorld(c, r.w)
                     /\ err' = r.err
            /\ pc' = [pc EXCEPT ![c] = "Create_created"]
            /\ UNCHANGED ret
    /\ UnchangedStart
    /\ UNCHANGED <<ctr, op, prev, cancelled, retStarted,
                   active, database, presetVars, clientVars>>

\* Create after PullImage: return its error, or call CreateContainer and
\* assign its results to c.id and err.
CreateAfterPull(c) ==
    /\ pc[c] = "Create_pulled"
    /\ IF err # "nil"
       THEN /\ CreateReturns(c, err)
            /\ UnchangedWorld
            /\ UNCHANGED ctr
       ELSE /\ nextId <= MaxIds
            /\ \E nd \in Outcomes(2) :
                 LET r == CreateContainer(World(c), ctr[c].image,
                                          ctr[c].options, nd)
                 IN  /\ SetWorld(c, r.w)
                     /\ ctr' = [ctr EXCEPT ![c].id = r.id]
                     /\ err' = r.err
            /\ pc' = [pc EXCEPT ![c] = "Create_created"]
            /\ UNCHANGED ret
    /\ UnchangedStart
    /\ UNCHANGED <<op, prev, cancelled, retStarted,
                   active, database, presetVars, clientVars>>

\* Create: the final return err.
CreateReturn(c) ==
    /\ pc[c] = "Create_created"
    /\ CreateReturns(c, err)
    /\ UnchangedWorld
    /\ UnchangedStart
    /\ UNCHANGED <<ctr, op, prev, cancelled, retStarted,
                   active, database, presetVars, clientVars>>

\* HasStarted, up to the assignment of fetchData's result to err; at is the
\* position the method continues from.
HasStartedFetch(c, w, nd, at) ==
    LET r == fetchContainerData(w, ctr[c], nd)
    IN  /\ SetWorld(c, r.w)
        /\ ctr' = [ctr EXCEPT ![c] = r.container]
        /\ err' = r.err
        /\ pc' = [pc EXCEPT ![c] = at]

HasStarted(c) ==
    /\ Enter(c, "HasStarted")
    /\ \E nd \in Outcomes(1) : HasStartedFetch(c, Entry(c), nd, "HasStarted_fetched")
    /\ ResetStart(c)
    /\ UNCHANGED <<ret, retStarted, active, database, presetVars, clientVars>>

\* HasStarted called by the user returns.
HasStartedReturn(c) ==
    /\ pc[c] = "HasStarted_fetched"
    /\ LET r == HasStartedResult(ctr[c], err)
       IN  /\ Finish(c, r.err)
           /\ retStarted' = [retStarted EXCEPT ![c] = r.started]
    /\ UnchangedWorld
    /\ UnchangedStart
    /\ UNCHANGED <<err, ctr, op, prev, cancelled, active, database,
                 presetVars, clientVars>>

Start(c) ==
    /\ Enter(c, "Start")
    /\ \E nd \in Outcomes(1) : HasStartedFetch(c, Entry(c), nd, "Start_fetched")
    /\ ResetStart(c)
    /\ UNCHANGED <<ret, retStarted, active, database, presetVars, clientVars>>

\* Variant of Start that drops the error of the first HasStarted.
StartHasStartedDropsError(c) ==
    /\ pc[c] = "Start_fetched"
    /\ LET r == HasStartedResult(ctr[c], err)
       IN  /\ started' = [started EXCEPT ![c] = r.started]
           /\ err' = "nil"
    /\ pc' = [pc EXCEPT ![c] = "Start_checked"]
    /\ UnchangedWorld
    /\ UNCHANGED <<ctr, op, prev, cancelled, ret, retStarted, t, polls,
                 active, database, presetVars, clientVars>>

\* Start: the first HasStarted returns and Start assigns started and err.
StartHasStarted(c) ==
    /\ pc[c] = "Start_fetched"
    /\ LET r == HasStartedResult(ctr[c], err)
       IN  /\ started' = [started EXCEPT ![c] = r.started]
           /\ err' = r.err
    /\ pc' = [pc EXCEPT ![c] = "Start_checked"]
    /\ UnchangedWorld
    /\ UNCHANGED <<ctr, op, prev, cancelled, ret, retStarted, t, polls,
                 active, database, presetVars, clientVars>>

\* Variant of Start that calls StartContainer also when started is true.
StartAfterHasStartedAlwaysStarts(c) ==
    /\ pc[c] = "Start_checked"
    /\ IF err # "nil"
       THEN Finish(c, err) /\ UnchangedWorld /\ UNCHANGED err
       ELSE /\ \E nd \in Outcomes(1) :
                 LET r == StartContainer(World(c), ctr[c].id, nd)
                 IN  SetWorld(c, r.w) /\ err' = r.err
            /\ pc' = [pc EXCEPT ![c] = "Start_issued"]
            /\ UNCHANGED ret
    /\ UnchangedStart
    /\ UNCHANGED <<ctr, op, prev, cancelled, retStarted,
                   active, database, presetVars, clientVars>>

\* Start after the first HasStarted: return, or call StartContainer.
StartAfterHasStarted(c) ==
    /\ pc[c] = "Start_checked"
    /\ IF err # "nil"
       THEN Finish(c, err) /\ UnchangedWorld /\ UNCHANGED err
       ELSE IF started[c]
       THEN Finish(c, "nil") /\ UnchangedWorld /\ UNCHANGED err
       ELSE /\ \E nd \in Outcomes(1) :
                 LET r == StartContainer(World(c), ctr[c].id, nd)
                 IN  SetWorld(c, r.w) /\ err' = r.err
            /\ pc' = [pc EXCEPT ![c] = "Start_issued"]
            /\ UNCHANGED ret
    /\ UnchangedStart
    /\ UNCHANGED <<ctr, op, prev, cancelled, retStarted,
                   active, database, presetVars, clientVars>>

\* Variant of the loop head with t <= StartTimeout as its condition.
StartLoopOneMore(c, tc, startedc) ==
    IF tc <= ctr[c].options.StartTimeout
    THEN /\ \E nd \in Outcomes(1) :
              HasStartedFetch(c, World(c), nd, "Start_polled")
         /\ UNCHANGED ret
    ELSE /\ Finish(c, IF startedc THEN "nil" ELSE errContainerStartTimeout)
         /\ UnchangedWorld
         /\ UNCHANGED <<err, ctr>>

\* The head of the loop of Start with the local variables as given: the
\* next HasStarted if t < StartTimeout, else the return after the loop.
StartLoop(c, tc, startedc) ==
    IF tc < ctr[c].options.StartTimeout
    THEN /\ \E nd \in Outcomes(1) :
              HasStartedFetch(c, World(c), nd, "Start_polled")
         /\ UNCHANGED ret
    ELSE /\ Finish(c, IF startedc THEN "nil" ELSE errContainerStartTimeout)
         /\ UnchangedWorld
         /\ UNCHANGED <<err, ctr>>

\* Start after StartContainer: return its error, or enter the loop.
StartAfterStartContainer(c) ==
    /\ pc[c] = "Start_issued"
    /\ IF err # "nil"
       THEN Finish(c, err) /\ UnchangedWorld /\ UNCHANGED <<err, ctr>>
       ELSE StartLoop(c, 0, started[c])
    /\ UnchangedStart
    /\ UNCHANGED <<op, prev, cancelled, retStarted,
                   active, database, presetVars, clientVars>>

\* Variant of the loop body without the break.
StartAfterPollNoBreak(c) ==
    /\ pc[c] = "Start_polled"
    /\ LET r == HasStartedResult(ctr[c], err)
       IN  /\ started' = [started EXCEPT ![c] = r.started]
           /\ polls' = [polls EXCEPT ![c] = Append(@, r.started)]
           /\ t' = [t EXCEPT ![c] = @ + 1]
           /\ StartLoop(c, t[c] + 1, r.started)
    /\ UNCHANGED <<op, prev, cancelled, retStarted,
                   active, database, presetVars, clientVars>>

\* Variant of the loop body that returns the error of the HasStarted.
StartAfterPollReturnsError(c) ==
    /\ pc[c] = "Start_polled"
    /\ LET r == HasStartedResult(ctr[c], err)
       IN  /\ started' = [started EXCEPT ![c] = r.started]
           /\ polls' = [polls EXCEPT ![c] = Append(@, r.started)]
           /\ IF r.err # "nil"
              THEN /\ Finish(c, r.err)
                   /\ UnchangedWorld
                   /\ UNCHANGED <<err, ctr, t>>
              ELSE IF r.started
              THEN /\ Finish(c, "nil")
                   /\ UnchangedWorld
                   /\ UNCHANGED <<err, ctr, t>>
              ELSE /\ t' = [t EXCEPT ![c] = @ + 1]
                   /\ StartLoop(c, t[c] + 1, FALSE)
    /\ UNCHANGED <<op, prev, cancelled, retStarted,
                   active, database, presetVars, clientVars>>

\* Start after a HasStarted of the loop: started is assigned and the error
\* dropped; break and return, or sleep a second and go round the loop.
StartAfterPoll(c) ==
    /\ pc[c] = "Start_polled"
    /\ LET r == HasStartedResult(ctr[c], err)
       IN  /\ started' = [started EXCEPT ![c] = r.started]
           /\ polls' = [polls EXCEPT ![c] = Append(@, r.started)]
           /\ IF r.started
              THEN /\ Finish(c, "nil")
                   /\ UnchangedWorld
                   /\ UNCHANGED <<err, ctr, t>>
              ELSE /\ t' = [t EXCEPT ![c] = @ + 1]
                   /\ StartLoop(c, t[c] + 1, FALSE)
    /\ UNCHANGED <<op, prev, cancelled, retStarted,
                   active, database, presetVars, clientVars>>

CreateStart(c) ==
    /\ Enter(c, "CreateStart")
    /\ \E nd \in Outcomes(1) : CreatePull(c, Entry(c), nd)
    /\ ResetStart(c)
    /\ UNCHANGED <<ctr, ret, retStarted, active, database, presetVars, clientVars>>

\* Variant of CreateStart that calls Start whatever Create returned.
CreateStartAfterCreateIgnoresError(c) ==
    /\ pc[c] = "CreateStart_created"
    /\ \E nd \in Outcomes(1) :
           HasStartedFetch(c, World(c), nd, "Start_fetched")
    /\ UNCHANGED ret
    /\ UnchangedStart
    /\ UNCHANGED <<op, prev, cancelled, retStarted,
                   active, database, presetVars, clientVars>>

\* CreateStart after Create: return its error, or call Start.
CreateStartAfterCreate(c) ==
    /\ pc[c] = "CreateStart_created"
    /\ IF err # "nil"
       THEN Finish(c, err) /\ UnchangedWorld /\ UNCHANGED <<err, ctr>>
       ELSE /\ \E nd \in Outcomes(1) :
                 HasStartedFetch(c, World(c), nd, "Start_fetched")
            /\ UNCHANGED ret
    /\ UnchangedStart
    /\ UNCHANGED <<op, prev, cancelled, retStarted,
                   active, database, presetVars, clientVars>>

\* fetchData, up to the assignment of its result to err.
FetchData(c, w, nd, at) ==
    LET r == fetchContainerData(w, ctr[c], nd)
    IN  /\ SetWorld(c, r.w)
        /\ ctr' = [ctr EXCEPT ![c] = r.container]
        /\ err' = r.err
        /\ pc' = [pc EXCEPT ![c] = at]

\* Stop: a fetch if the object has no id, else StopContainer at once.
Stop(c) ==
    /\ Enter(c, "Stop")
    /\ IF Len(ctr[c].id) = 0
       THEN /\ \E nd \in Outcomes(1) : FetchData(c, Entry(c), nd, "Stop_fetched")
            /\ UNCHANGED ret
       ELSE /\ \E nd \in Outcomes(1) :
                 LET r == StopContainer(Entry(c), ctr[c].id, nd)
                 IN  SetWorld(c, r.w) /\ Finish(c, r.err)
            /\ UNCHANGED <<err, ctr>>
    /\ ResetStart(c)
    /\ UNCHANGED <<retStarted, active, database, presetVars, clientVars>>

\* Stop after fetchData: return its error, or the result of StopContainer.
StopAfterFetch(c) ==
    /\ pc[c] = "Stop_fetched"
    /\ IF err # "nil"
       THEN Finish(c, err) /\ UnchangedWorld
       ELSE \E nd \in Outcomes(1) :
                LET r == StopContainer(World(c), ctr[c].id, nd)
                IN  SetWorld(c, r.w) /\ Finish(c, r.err)
    /\ UnchangedStart
    /\ UNCHANGED <<err, ctr, op, prev, cancelled, retStarted,
                 active, database, presetVars, clientVars>>

Remove(c) ==
    /\ Enter(c, "Remove")
    /\ \E nd \in Outcomes(1) : FetchData(c, Entry(c), nd, "Remove_fetched")
    /\ ResetStart(c)
    /\ UNCHANGED <<ret, retStarted, active, database, presetVars, clientVars>>

\* Variant of Remove that returns errContainerNotFound to the caller.
RemoveSwitchNotFoundReturned(c) ==
    /\ pc[c] = "Remove_fetched"
    /\ IF err = "nil"
       THEN \E nd \in Outcomes(1) :
                LET r == RemoveContainer(World(c), ctr[c].id, nd)
                IN  SetWorld(c, r.w) /\ Finish(c, r.err)
       ELSE Finish(c, err) /\ UnchangedWorld
    /\ UnchangedStart
    /\ UNCHANGED <<err, ctr, op, prev, cancelled, retStarted,
                 active, database, presetVars, clientVars>>

\* Remove: the switch on err.
RemoveSwitch(c) ==
    /\ pc[c] = "Remove_fetched"
    /\ IF err = errContainerNotFound
       THEN Finish(c, "nil") /\ UnchangedWorld
       ELSE IF err = "nil"
       THEN \E nd \in Outcomes(1) :
                LET r == RemoveContainer(World(c), ctr[c].id, nd)
                IN  SetWorld(c, r.w) /\ Finish(c, r.err)
       ELSE Finish(c, err) /\ UnchangedWorld
    /\ UnchangedStart
    /\ UNCHANGED <<err, ctr, op, prev, cancelled, retStarted,
                 active, database, presetVars, clientVars>>

StopRemove(c) ==
    /\ Enter(c, "StopRemove")
    /\ \E nd \in Outcomes(1) : FetchData(c, Entry(c), nd, "StopRemove_fetched")
    /\ ResetStart(c)
    /\ UNCHANGED <<ret, retStarted, active, database, presetVars, clientVars>>

\* Variant of StopRemove that returns errContainerNotFound to the caller.
StopRemoveSwitchNotFoundReturned(c) ==
    /\ pc[c] = "StopRemove_fetched"
    /\ IF err = "nil"
       THEN \E nd \in Outcomes(2) :
                LET r == StopRemoveContainer(World(c), ctr[c].id, nd)
                IN  SetWorld(c, r.w) /\ Finish(c, r.err)
       ELSE Finish(c, err) /\ UnchangedWorld
    /\ UnchangedStart
    /\ UNCHANGED <<err, ctr, op, prev, cancelled, retStarted,
                 active, database, presetVars, clientVars>>

\* StopRemove: the switch on err.
StopRemoveSwitch(c) ==
    /\ pc[c] = "StopRemove_fetched"
    /\ IF err = errContainerNotFound
       THEN Finish(c, "nil") /\ UnchangedWorld
       ELSE IF err = "nil"
       THEN \E nd \in Outcomes(2) :
                LET r == StopRemoveContainer(World(c), ctr[c].id, nd)
                IN  SetWorld(c, r.w) /\ Finish(c, r.err)
       ELSE Finish(c, err) /\ UnchangedWorld
    /\ UnchangedStart
    /\ UNCHANGED <<err, ctr, op, prev, cancelled, retStarted,
                 active, database, presetVars, clientVars>>

\* container.Exec: the result of ExecCommand for the id of the object.
Exec(c, w, command, nd) ==
    LET r == ExecCommand(w, ctr[c].id, command, nd)
    IN  SetWorld(c, r.w) /\ Finish(c, r.err)

\* databaseContainer.ResetDatabase
ResetDatabase(c) ==
    /\ Enter(c, "ResetDatabase")
    /\ \E nd \in Outcomes(2) :
           Exec(c, Entry(c), database[c].ResetCommand, nd)
    /\ ResetStart(c)
    /\ UNCHANGED <<err, ctr, retStarted, active, database, presetVars,
                   clientVars>>

\* The engine: the health check of a running container passes.
HealthCheckPasses(i) ==
    /\ containers[i].state = "running"
    /\ containers[i].health = "starting"
    /\ containers' = [containers EXCEPT ![i].health = "healthy"]
    /\ UNCHANGED <<nextId, cli, handles, closed, err, ctr, pc, op, ret,
                   retStarted, started, t, polls, log, faults, prev, cancelled,
                   active, database, presetVars, clientVars>>

\* The caller cancels the context that it passed to Start or CreateStart,
\* after the start command and before the method returns; the model lets
\* it happen during the first MaxStartTimeout seconds of the wait.
Cancel(c) ==
    /\ c \in active
    /\ pc[c] \in {"Start_issued", "Start_polled"}
    /\ t[c] < MaxStartTimeout
    /\ ~cancelled[c]
    /\ cancelled' = [cancelled EXCEPT ![c] = TRUE]
    /\ UNCHANGED <<containers, nextId, cli, handles, closed, err, ctr, pc, op,
                   ret, retStarted, started, t, polls, log, faults, prev,
                   active, database, presetVars, clientVars>>

Next ==
    \/ \E c \in Ctl : Create(c)
    \/ \E c \in Ctl : CreateAfterPull(c)
    \/ \E c \in Ctl : CreateReturn(c)
    \/ \E c \in Ctl : HasStarted(c)
    \/ \E c \in Ctl : HasStartedReturn(c)
    \/ \E c \in Ctl : Start(c)
    \/ \E c \in Ctl : StartHasStarted(c)
    \/ \E c \in Ctl : StartAfterHasStarted(c)
    \/ \E c \in Ctl : StartAfterStartContainer(c)
    \/ \E c \in Ctl : StartAfterPoll(c)
    \/ \E c \in Ctl : CreateStart(c)
    \/ \E c \in Ctl : CreateStartAfterCreate(c)
    \/ \E c \in Ctl : Stop(c)
    \/ \E c \in Ctl : StopAfterFetch(c)
    \/ \E c \in Ctl : Remove(c)
    \/ \E c \in Ctl : RemoveSwitch(c)
    \/ \E c \in Ctl : StopRemove(c)
    \/ \E c \in Ctl : StopRemoveSwitch(c)
    \/ \E c \in Ctl : ResetDatabase(c)
    \/ \E c \in Ctl : Cancel(c)
    \/ \E i \in Ids : HealthCheckPasses(i)

Spec == Init /\ [][Next]_vars

(***************************************************************************)
(* The constructors and the preset functions as calls: a caller builds     *)
(* container objects and operates none of them.                            *)
(***************************************************************************)
lifecycleVars ==
    <<containers, nextId, cli, handles, closed, err, ctr, pc, op, ret,
      retStarted, started, t, polls, log, faults, prev, cancelled, active,
      database, clientVars>>

Returns(fn, options, result) ==
    /\ called' = [fn |-> fn, options |-> options]
    /\ built' = result
    /\ UNCHANGED <<preset, lifecycleVars>>

\* Variant of the preset methods in which combineContainerOptions assigns
\* the name and the health check of the options to the preset itself.
presetAfterCallKeepsOverrides(p, options) ==
    IF options = << >> THEN p
    ELSE [p EXCEPT !.Container.Name =
                       IF options[1].Name # "" THEN options[1].Name ELSE @,
                   !.Container.Healthcheck =
                       IF options[1].Healthcheck # "" THEN options[1].Healthcheck
                       ELSE @]

\* The preset p after asContainer (options nil) or asCustomizedContainer:
\* getPresetContainerOptions reads the fields of p into a new Options
\* value, and combineContainerOptions assigns to fields of that value only.
presetAfterCall(p, options) == p

\* A method of the preset returns.
PresetReturns(fn, options, result) ==
    /\ called' = [fn |-> fn, options |-> options]
    /\ built' = result
    /\ preset' = presetAfterCall(preset, options)
    /\ UNCHANGED lifecycleVars

CallNewContainer ==
    Returns("NewContainer", << >>, Plain(NewContainer(preset.Image.Name)))

CallNewContainerWithOptions ==
    \E o \in CallerOptions :
        Returns("NewContainerWithOptions", <<o>>,
                Plain(NewContainerWithOptions(preset.Image.Name, o)))

CallNewDatabaseContainer ==
    Returns("NewDatabaseContainer", << >>,
            WithDatabase(NewDatabaseContainer(preset.Image.Name,
                                              getPresetDatabase(preset))))

CallNewDatabaseContainerWithOptions ==
    \E o \in CallerOptions :
        Returns("NewDatabaseContainerWithOptions", <<o>>,
                WithDatabase(NewDatabaseContainerWithOptions(
                                 preset.Image.Name, getPresetDatabase(preset),
                                 o)))

CallAsContainer == PresetReturns("asContainer", << >>, asContainer(preset))

CallAsCustomizedContainer ==
    \E options \in {<< >>} \cup {<<o>> : o \in CallerOptions} :
        PresetReturns("asCustomizedContainer", options,
                      asCustomizedContainer(preset, options))

\* NewPostgresqlContainer, for any preset
CallDatabaseAsContainer ==
    PresetReturns("databaseAsContainer", << >>, databaseAsContainer(preset))

\* NewCustomizedPostgresqlContainer, for any preset
CallDatabaseAsCustomizedContainer ==
    \E o \in CallerOptions :
        PresetReturns("databaseAsCustomizedContainer", <<o>>,
                      databaseAsCustomizedContainer(preset, o))

\* A preset loaded from some values file, and no container object operated.
InitPresetsOnly ==
    /\ InitPackage
    /\ InitMethods
    /\ containers = [i \in Ids |-> NoContainer]
    /\ nextId = 1
    /\ active = {}
    /\ ctr = [c \in Ctl |-> NewContainer("img")]
    /\ database = [c \in Ctl |-> ZeroDatabase]
    /\ preset \in Presets
    /\ called = NoCall
    /\ built = NotBuilt
    /\ InitClient

NextPresets ==
    \/ CallNewContainer
    \/ CallNewContainerWithOptions
    \/ CallNewDatabaseContainer
    \/ CallNewDatabaseContainerWithOptions
    \/ CallAsContainer
    \/ CallAsCustomizedContainer
    \/ CallDatabaseAsContainer
    \/ CallDatabaseAsCustomizedContainer

SpecPresets == InitPresetsOnly /\ [][NextPresets]_vars

(***************************************************************************)
(* The package variable cli under concurrent use: two goroutines call the  *)
(* package-level function PullImage, each any number of times.  getClient  *)
(* and newClient take no lock, so a step is one access to cli: the read in *)
(* getClient, the call of the factory, the assignment in newClient.        *)
(***************************************************************************)
clientFrame ==
    <<containers, nextId, err, ctr, op, retStarted, started, t, polls, prev,
      cancelled, active, database, presetVars>>

\* PullImage with a name: getClient reads cli and returns the stored
\* client, or goes on to newClient.
PullImageGetClient(g) ==
    /\ pc[g] = "idle"
    /\ IF cli # 0
       THEN /\ held' = [held EXCEPT ![g] = cli]
            /\ pc' = [pc EXCEPT ![g] = "PullImage_client"]
       ELSE /\ held' = [held EXCEPT ![g] = 0]
            /\ pc' = [pc EXCEPT ![g] = "getClient_nil"]
    /\ log' = [log EXCEPT ![g] = << >>]
    /\ faults' = [faults EXCEPT ![g] = FALSE]
    /\ UNCHANGED <<cli, handles, closed, ret, invoked, clientFrame>>

\* Variant of the factory call that stores a client also when the factory
\* fails.
NewClientFnStoresOnFailure(g) ==
    /\ pc[g] = "getClient_nil"
    /\ invoked < MaxInvocations
    /\ invoked' = invoked + 1
    /\ \E ok \in BOOLEAN :
           IF ok
           THEN /\ handles' = handles + 1
                /\ held' = [held EXCEPT ![g] = handles + 1]
                /\ pc' = [pc EXCEPT ![g] = "newClient_created"]
                /\ UNCHANGED <<cli, ret, faults>>
           ELSE /\ handles' = handles + 1
                /\ cli' = handles + 1
                /\ Finish(g, errNewClient)
                /\ faults' = [faults EXCEPT ![g] = TRUE]
                /\ UNCHANGED held
    /\ UNCHANGED <<closed, log, clientFrame>>

\* newClient calls the factory: a new handle, or the error that newClient,
\* getClient and PullImage return.
NewClientFn(g) ==
    /\ pc[g] = "getClient_nil"
    /\ invoked < MaxInvocations
    /\ invoked' = invoked + 1
    /\ \E ok \in BOOLEAN :
           IF ok
           THEN /\ handles' = handles + 1
                /\ held' = [held EXCEPT ![g] = handles + 1]
                /\ pc' = [pc EXCEPT ![g] = "newClient_created"]
                /\ UNCHANGED <<ret, faults>>
           ELSE /\ Finish(g, errNewClient)
                /\ faults' = [faults EXCEPT ![g] = TRUE]
                /\ UNCHANGED <<handles, held>>
    /\ UNCHANGED <<cli, closed, log, clientFrame>>

\* newClient assigns the client with the new handle to cli and returns it.
NewClientStore(g) ==
    /\ pc[g] = "newClient_created"
    /\ cli' = held[g]
    /\ pc' = [pc EXCEPT ![g] = "PullImage_client"]
    /\ UNCHANGED <<handles, closed, ret, log, faults, held, invoked,
                   clientFrame>>

\* PullImage calls pullImage of the client it got.
PullImagePull(g) ==
    /\ pc[g] = "PullImage_client"
    /\ \E fail \in BOOLEAN :
           LET r == pullImage([World(g) EXCEPT !.h = held[g]], "img", fail)
           IN  /\ log' = [log EXCEPT ![g] = r.w.log]
               /\ faults' = [faults EXCEPT ![g] = r.w.faults]
               /\ ret' = [ret EXCEPT ![g] = r.err]
    /\ pc' = [pc EXCEPT ![g] = "PullImage_pulled"]
    /\ UNCHANGED <<cli, handles, closed, held, invoked, clientFrame>>

\* PullImage returns: the deferred close of its client.
PullImageClose(g) ==
    /\ pc[g] = "PullImage_pulled"
    /\ closed' = closed \cup {held[g]}
    /\ pc' = [pc EXCEPT ![g] = "idle"]
    /\ UNCHANGED <<cli, handles, ret, log, faults, held, invoked,
                   clientFrame>>

InitClientOnly ==
    /\ InitPackage
    /\ InitMethods
    /\ InitPresets
    /\ InitClient
    /\ containers = [i \in Ids |-> NoContainer]
    /\ nextId = 1
    /\ active = {}
    /\ ctr = [c \in Ctl |-> NewContainer("img")]
    /\ database = [c \in Ctl |-> ZeroDatabase]

NextClient ==
    \/ \E g \in Ctl : PullImageGetClient(g)
    \/ \E g \in Ctl : NewClientFn(g)
    \/ \E g \in Ctl : NewClientStore(g)
    \/ \E g \in Ctl : PullImagePull(g)
    \/ \E g \in Ctl : PullImageClose(g)

SpecClient == InitClientOnly /\ [][NextClient]_vars

(***************************************************************************)
(* Two container objects for the same container name, each used by its own *)
(* goroutine.  The methods of both assign and read the one package         *)
(* variable err; the steps of the two goroutines interleave.               *)
(***************************************************************************)
InitRace ==
    /\ InitPackage
    /\ InitEngine
    /\ InitMethods
    /\ InitPresets
    /\ InitClient
    /\ active = Ctl
    /\ ctr = [c \in Ctl |-> NewContainerWithOptions("img", BaseOptions)]
    /\ database = [c \in Ctl |-> ZeroDatabase]

\* The goroutines call HasStarted, Stop, Remove and StopRemove.
NextRace ==
    \/ \E c \in Ctl : HasStarted(c)
    \/ \E c \in Ctl : HasStartedReturn(c)
    \/ \E c \in Ctl : Stop(c)
    \/ \E c \in Ctl : StopAfterFetch(c)
    \/ \E c \in Ctl : Remove(c)
    \/ \E c \in Ctl : RemoveSwitch(c)
    \/ \E c \in Ctl : StopRemove(c)
    \/ \E c \in Ctl : StopRemoveSwitch(c)

SpecRace == InitRace /\ [][NextRace]_vars

TypeOK ==
    /\ nextId \in 1..(MaxIds + 1)
    /\ cli \in 0..handles
    /\ \A c \in Ctl : op[c] \in Methods \cup {"none"}
    /\ \A c \in Ctl : prev[c] \in Tracked \cup {"none"}
    /\ \A c \in Ctl : cancelled[c] \in BOOLEAN
    /\ \A g \in Ctl : held[g] \in 0..handles
    /\ invoked \in 0..MaxInvocations

(***************************************************************************)
(* Properties.  They are read off the state a method leaves when it        *)
(* returns: op, ret and the log of its engine calls stay until the next    *)
(* call on the object.                                                     *)
(***************************************************************************)

\* Method m of ms, called on c, has returned.
Done(c, ms) == c \in active /\ pc[c] = "idle" /\ op[c] \in ms

\* Number of calls of an engine operation in the log of c.
Count(c, call) ==
    Cardinality({i \in DOMAIN log[c] : log[c][i].call = call})

\* The object has a name or an id to find its container by.
Resolvable(c) == getName(ctr[c]) # "" \/ ctr[c].id # ""

\* Log entries: a list that found nothing, failed, found a ready container.
ListedNone(e) == e.call = "ContainerList" /\ e.err = "nil" /\ e.n = 0
ListFailed(e) == e.call = "ContainerList" /\ e.err # "nil"
ListedSome(e) == e.call = "ContainerList" /\ e.err = "nil" /\ e.n > 0
ListedReady(e) ==
    ListedSome(e) /\ e.state = "running" /\ e.health # "starting"

\* The engine holds a container that the filter of c's fetch matches.
Matched(c) ==
    \E i \in Ids :
        /\ containers[i].state # "absent"
        /\ IF getName(ctr[c]) # "" THEN containers[i].name = getName(ctr[c])
           ELSE i = ctr[c].id

\* The engine holds no container of the given name.
NameFree(name) ==
    \A i \in Ids : containers[i].state # "absent" => containers[i].name # name

\* The part of the log after the start command: the lists of the polls.
StartIndex(c) ==
    CHOOSE i \in DOMAIN log[c] : log[c][i].call = "ContainerStart"
PollLists(c) ==
    IF Count(c, "ContainerStart") = 0 THEN << >>
    ELSE SubSeq(log[c], StartIndex(c) + 1, Len(log[c]))

\* C1: Remove and StopRemove on an object with a name or an id return nil
\* and issue no stop and no remove when the list finds no container.
C1_TeardownOfAbsent ==
    \A c \in Ctl :
        (/\ Done(c, {"Remove", "StopRemove"})
         /\ Resolvable(c)
         /\ Len(log[c]) >= 1
         /\ ListedNone(log[c][1]))
        => /\ ret[c] = "nil"
           /\ Count(c, "ContainerStop") = 0
           /\ Count(c, "ContainerRemove") = 0
           /\ Len(log[c]) = 1

C1_Witness ==
    \E c \in Ctl :
        /\ Done(c, {"Remove"})
        /\ Resolvable(c)
        /\ Len(log[c]) = 1
        /\ ListedNone(log[c][1])
        /\ ret[c] = "nil"

\* C2: with no failing library or engine call, Remove and StopRemove on an
\* object with a name or an id return nil whatever the engine holds, and
\* so does the same method called again right after it has returned nil.
C2_TeardownIdempotent ==
    \A c \in Ctl :
        (/\ Done(c, {"Remove", "StopRemove"})
         /\ Resolvable(c)
         /\ ~faults[c])
        => ret[c] = "nil"

C2_Witness ==
    \E c \in Ctl :
        /\ Done(c, {"StopRemove"})
        /\ prev[c] = "StopRemove"
        /\ ~faults[c]
        /\ ret[c] = "nil"
        /\ nextId > 1

\* C3 as claimed: after Remove has returned nil for a container that the
\* list found, a remove command for its id has been issued and the engine
\* no longer holds the container.
C3_RemoveRemoves ==
    \A c \in Ctl :
        (/\ Done(c, {"Remove"})
         /\ ret[c] = "nil"
         /\ Len(log[c]) >= 1
         /\ ListedSome(log[c][1]))
        => /\ \E i \in DOMAIN log[c] : /\ log[c][i].call = "ContainerRemove"
                                       /\ log[c][i].arg = ctr[c].id
           /\ ~Matched(c)

\* The image and the port mappings of the object are such that Create does
\* not reject them.
WellFormed(c) ==
    ctr[c].image # "" /\ PortBindings(ctr[c].options.ExposedPorts).ok

C6_StartOfReady ==
    \A c \in Ctl :
        (/\ Done(c, {"Start"})
         /\ Len(log[c]) >= 1
         /\ ListedReady(log[c][1]))
        => /\ ret[c] = "nil"
           /\ Len(log[c]) = 1
           /\ Count(c, "ContainerStart") = 0
           /\ polls[c] = << >>
           /\ t[c] = 0

C6_Witness ==
    \E c \in Ctl :
        /\ Done(c, {"Start"})
        /\ Len(log[c]) = 1
        /\ ListedReady(log[c][1])
        /\ ret[c] = "nil"

\* C7: Start issues at most one start command and at most StartTimeout
\* polls; when the start command succeeds and no poll finds the container
\* ready, it makes exactly StartTimeout polls, one per second waited, and
\* returns errContainerStartTimeout.
C7_StartTimeout ==
    \A c \in Ctl :
        /\ Count(c, "ContainerStart") <= 1
        /\ Len(PollLists(c)) <= ctr[c].options.StartTimeout
        /\ (/\ Done(c, {"Start", "CreateStart"})
            /\ Count(c, "ContainerStart") = 1
            /\ log[c][StartIndex(c)].err = "nil"
            /\ \A i \in DOMAIN PollLists(c) : ~ListedReady(PollLists(c)[i]))
           => /\ ret[c] = errContainerStartTimeout
              /\ Len(PollLists(c)) = ctr[c].options.StartTimeout
              /\ t[c] = ctr[c].options.StartTimeout

C7_Witness ==
    \E c \in Ctl :
        /\ Done(c, {"Start"})
        /\ ret[c] = errContainerStartTimeout
        /\ ctr[c].options.StartTimeout = 2
        /\ Len(PollLists(c)) = 2
        /\ \A i \in DOMAIN PollLists(c) :
               /\ ListedSome(PollLists(c)[i])
               /\ PollLists(c)[i].health = "starting"

\* C8: when Start has polled, no poll before the last one found the
\* container ready; if the last one did, Start has returned nil having
\* waited once per earlier poll and not after it; and Start returns nil
\* after polling only if the last poll found the container ready.
C8_StartReturnsAtFirstReady ==
    \A c \in Ctl :
        (Done(c, {"Start", "CreateStart"}) /\ PollLists(c) # << >>)
        => LET L == PollLists(c)
           IN  /\ \A i \in 1..(Len(L) - 1) : ~ListedReady(L[i])
               /\ ListedReady(L[Len(L)])
                      => ret[c] = "nil" /\ t[c] = Len(L) - 1
               /\ ret[c] = "nil" => ListedReady(L[Len(L)])
               /\ Len(polls[c]) = Len(L)

C8_Witness ==
    \E c \in Ctl :
        /\ Done(c, {"Start"})
        /\ ret[c] = "nil"
        /\ Len(PollLists(c)) = 2
        /\ ListedSome(PollLists(c)[1])
        /\ PollLists(c)[1].health = "starting"
        /\ ListedReady(PollLists(c)[2])
        /\ t[c] = 1

\* C9: HasStarted returns nil exactly when its list found a container, and
\* then returns true if and only if the engine reported the container as
\* running and its health as not starting.
C9_HasStarted ==
    \A c \in Ctl :
        (Done(c, {"HasStarted"}) /\ Len(log[c]) >= 1)
        => /\ ret[c] = "nil" <=> ListedSome(log[c][1])
           /\ ret[c] = "nil" =>
                  (retStarted[c] <=> /\ log[c][1].state = "running"
                                     /\ log[c][1].health # "starting")

C9_Witness ==
    \E c \in Ctl :
        /\ Done(c, {"HasStarted"})
        /\ ret[c] = "nil"
        /\ log[c][1].state = "running"
        /\ log[c][1].health = "starting"
        /\ ~retStarted[c]

\* The error of a fetch whose list is the log entry e.
FetchError(e) ==
    IF ListFailed(e) THEN e.err
    ELSE IF ListedNone(e) THEN errContainerNotFound
    ELSE "nil"

\* C10: when the first fetch of Start finds no container or its list
\* fails, Start returns errContainerNotFound resp. the error of the list
\* and issues no start command; HasStarted returns the same error and false.
C10_StartFetchFails ==
    \A c \in Ctl :
        (/\ Done(c, {"Start", "HasStarted"})
         /\ Len(log[c]) >= 1
         /\ FetchError(log[c][1]) # "nil")
        => /\ ret[c] = FetchError(log[c][1])
           /\ Len(log[c]) = 1
           /\ Count(c, "ContainerStart") = 0
           /\ op[c] = "HasStarted" => ~retStarted[c]

C10_Witness ==
    \E c \in Ctl :
        /\ Done(c, {"Start"})
        /\ Len(log[c]) = 1
        /\ ListedNone(log[c][1])
        /\ ret[c] = errContainerNotFound

\* C11 as claimed: Stop on an object with a name or an id whose container
\* the engine does not hold returns errContainerNotFound and issues no stop
\* command; a failed list is returned as it is, without a stop command.
C11_StopOfAbsent ==
    \A c \in Ctl :
        (Done(c, {"Stop"}) /\ Resolvable(c))
        => /\ (~Matched(c) /\ ~faults[c])
                  => /\ ret[c] = errContainerNotFound
                     /\ Count(c, "ContainerStop") = 0
           /\ (Len(log[c]) >= 1 /\ ListFailed(log[c][1]))
                  => /\ ret[c] = log[c][1].err
                     /\ Count(c, "ContainerStop") = 0

\* C12: in every step of Create and CreateStart on an object with an empty
\* image name the id of the object stays as it is and no engine call is
\* made, and the method returns errEmptyImageName.
C12_EmptyImage ==
    [][\A c \in Ctl :
          (/\ c \in active
           /\ ctr[c].image = ""
           /\ op'[c] \in {"Create", "CreateStart"})
          => /\ ctr'[c].id = ctr[c].id
             /\ log'[c] = << >>
             /\ pc'[c] = "idle" => ret'[c] = errEmptyImageName]_vars

C12_Witness ==
    \E c \in Ctl :
        /\ Done(c, {"CreateStart"})
        /\ ctr[c].image = ""
        /\ ctr[c].id # ""
        /\ ret[c] = errEmptyImageName
        /\ log[c] = << >>

\* C13: Create on an object with an image and an empty name, no library or
\* engine call failing, returns nil and leaves in the object the id under
\* which the engine holds the container it has just created.
C13_CreateWithoutName ==
    \A c \in Ctl :
        (/\ Done(c, {"Create"})
         /\ getName(ctr[c]) = ""
         /\ WellFormed(c)
         /\ ~faults[c])
        => /\ ret[c] = "nil"
           /\ log[c][Len(log[c])].call = "ContainerCreate"
           /\ log[c][Len(log[c])].err = "nil"
           /\ ctr[c].id = ToString(nextId - 1)
           /\ containers[ctr[c].id].state = "created"
           /\ containers[ctr[c].id].name = ""
           /\ containers[ctr[c].id].image = ctr[c].image

C13_Witness ==
    \E c \in Ctl :
        /\ Done(c, {"Create"})
        /\ getName(ctr[c]) = ""
        /\ ctr[c].image # ""
        /\ ret[c] = "nil"
        /\ ctr[c].id = "1"
        /\ containers["1"].state = "created"

\* C14: in Create a failed engine call is the last engine call and its
\* error is what Create returns; a create call comes right after a pull
\* that succeeded, so none follows a failed pull; there is at most one
\* create call.
C14_CreateErrors ==
    \A c \in Ctl :
        Done(c, {"Create"})
        => /\ \A i \in DOMAIN log[c] :
                  log[c][i].err # "nil"
                      => i = Len(log[c]) /\ ret[c] = log[c][i].err
           /\ \A i \in DOMAIN log[c] :
                  log[c][i].call = "ContainerCreate"
                      => /\ i > 1
                         /\ log[c][i - 1].call = "ImagePull"
                         /\ log[c][i - 1].err = "nil"
           /\ (\E i \in DOMAIN log[c] : /\ log[c][i].call = "ImagePull"
                                        /\ log[c][i].err # "nil")
                  => Count(c, "ContainerCreate") = 0
           /\ Count(c, "ContainerCreate") <= 1

C14_Witness ==
    \E c \in Ctl :
        /\ Done(c, {"Create"})
        /\ Len(log[c]) >= 2
        /\ log[c][Len(log[c]) - 1].call = "ImagePull"
        /\ log[c][Len(log[c]) - 1].err = "nil"
        /\ log[c][Len(log[c])].call = "ContainerCreate"
        /\ log[c][Len(log[c])].err = errNameConflict
        /\ ret[c] = errNameConflict

\* Index in the log of c of the create call that succeeded, 0 if none did.
CreatedAt(c) ==
    IF \E i \in DOMAIN log[c] : /\ log[c][i].call = "ContainerCreate"
                                /\ log[c][i].err = "nil"
    THEN CHOOSE i \in DOMAIN log[c] : /\ log[c][i].call = "ContainerCreate"
                                      /\ log[c][i].err = "nil"
    ELSE 0

\* The error of a Create that did not create a container, read off what
\* the method observed: the rejected image name, the client factory's
\* error, the error of the engine call that failed, the rejected ports.
CreateError(c) ==
    IF ctr[c].image = "" THEN errEmptyImageName
    ELSE IF log[c] = << >> THEN errNewClient
    ELSE IF log[c][Len(log[c])].err # "nil" THEN log[c][Len(log[c])].err
    ELSE errIncorrectPortConfig

\* The result of a Start whose engine calls are L (not empty), read off
\* their outcomes.
StartResult(L) ==
    IF FetchError(L[1]) # "nil" THEN FetchError(L[1])
    ELSE IF ListedReady(L[1]) THEN "nil"
    ELSE IF L[2].err # "nil" THEN L[2].err
    ELSE IF Len(L) > 2 /\ ListedReady(L[Len(L)]) THEN "nil"
    ELSE errContainerStartTimeout

\* C15: a CreateStart that creates no container returns what a Create with
\* the same observations returns and issues neither a list nor a start
\* command; a CreateStart that creates one returns what a Start with the
\* engine calls it makes after the create returns.
C15_CreateStartComposes ==
    \A c \in Ctl :
        /\ (Done(c, {"Create", "CreateStart"}) /\ CreatedAt(c) = 0)
               => /\ ret[c] = CreateError(c)
                  /\ Count(c, "ContainerList") = 0
                  /\ Count(c, "ContainerStart") = 0
        /\ (Done(c, {"Start"}) /\ log[c] # << >>)
               => ret[c] = StartResult(log[c])
        /\ (Done(c, {"CreateStart"}) /\ CreatedAt(c) > 0)
               => /\ CreatedAt(c) < Len(log[c])
                  /\ ret[c] = StartResult(SubSeq(log[c], CreatedAt(c) + 1,
                                                 Len(log[c])))

C15_Witness ==
    \E c \in Ctl :
        /\ Done(c, {"CreateStart"})
        /\ CreatedAt(c) = 0
        /\ Len(log[c]) >= 2
        /\ ret[c] = errNameConflict
        /\ Count(c, "ContainerList") = 0

\* The options a caller passed: those of a nil pointer are all empty.
Passed(options) == IF options = << >> THEN ZeroOptions ELSE options[1]

\* A customized container object has been built from the preset.
Customized ==
    /\ called.fn \in {"asCustomizedContainer", "databaseAsCustomizedContainer"}
    /\ ~built.panic

\* The container object the preset gives without customization.
Uncustomized ==
    IF called.fn = "asCustomizedContainer" THEN asContainer(preset)
    ELSE databaseAsContainer(preset)

\* The options of a container object customized with O, given those of the
\* uncustomized object, B; present tells if a timeout counts as given.
Overlay(B, O, present(_)) ==
    [Name |-> IF O.Name # "" THEN O.Name ELSE B.Name,
     Healthcheck |-> IF O.Healthcheck # "" THEN O.Healthcheck
                     ELSE B.Healthcheck,
     EnvironmentVariables |-> IF O.EnvironmentVariables # << >>
                              THEN O.EnvironmentVariables
                              ELSE B.EnvironmentVariables,
     ExposedPorts |-> IF O.ExposedPorts # << >> THEN O.ExposedPorts
                      ELSE B.ExposedPorts,
     StartTimeout |-> IF present(O.StartTimeout) THEN O.StartTimeout
                      ELSE B.StartTimeout]

NonZero(n) == n # 0
Positive(n) == n > 0

\* C16 as claimed: the options of a customized container object are, field
\* by field, those of the override where it has a non-empty string, a
\* non-empty list or a non-zero timeout, and those of the uncustomized
\* object elsewhere.
C16_OverlayNonZero ==
    Customized
    => built.container.options =
           Overlay(Uncustomized.container.options, Passed(called.options),
                   NonZero)

\* C16 amended: the options of a customized container object are, field by
\* field, those of the override where it has a non-empty string, a
\* non-empty list or a positive timeout, and those of the uncustomized
\* object elsewhere; a nil or all-empty override gives the uncustomized
\* object.
C16_OverlayPositive ==
    Customized
    => /\ built.container.options =
              Overlay(Uncustomized.container.options, Passed(called.options),
                      Positive)
       /\ Passed(called.options) = ZeroOptions => built = Uncustomized

C16_Witness ==
    /\ Customized
    /\ preset = postgresqlPreset
    /\ called.options # << >>
    /\ called.options[1].Name = "db"
    /\ called.options[1].EnvironmentVariables = << >>
    /\ called.options[1].StartTimeout = 2
    /\ built.container.options.Name = "db"
    /\ Len(built.container.options.EnvironmentVariables) = 3
    /\ built.container.options.StartTimeout = 2

\* C17: a container object customized with options that give only exposed
\* ports has exactly these ports and is, in everything else (image, name,
\* environment variables, health check, start timeout, database), the
\* uncustomized object.
C17_PortsOnly ==
    (/\ Customized
     /\ Passed(called.options).ExposedPorts # << >>
     /\ [Passed(called.options) EXCEPT !.ExposedPorts = << >>] = ZeroOptions)
    => /\ built.container.options.ExposedPorts =
              Passed(called.options).ExposedPorts
       /\ [built EXCEPT !.container.options.ExposedPorts =
                            Uncustomized.container.options.ExposedPorts]
              = Uncustomized

C17_Witness ==
    /\ Customized
    /\ called.fn = "databaseAsCustomizedContainer"
    /\ preset = postgresqlPreset
    /\ called.options = <<[ZeroOptions EXCEPT
                             !.ExposedPorts = <<Chars("5432:5433")>>]>>
    /\ built.container.options.ExposedPorts = <<Chars("5432:5433")>>
    /\ built.container.options.Healthcheck = "pg_isready"
    /\ built.database.Name = "postgres"

\* C18: a container object built by a constructor or from a preset has
\* StartTimeout 60 if the caller gave no options or a StartTimeout of 0,
\* and the caller's StartTimeout if that is positive.
C18_StartTimeoutDefault ==
    (called.fn # "none" /\ ~built.panic)
    => /\ Passed(called.options).StartTimeout = 0
              => built.container.options.StartTimeout = 60
       /\ Passed(called.options).StartTimeout > 0
              => built.container.options.StartTimeout =
                     Passed(called.options).StartTimeout

C18_Witness ==
    /\ called.fn = "NewDatabaseContainerWithOptions"
    /\ called.options # << >>
    /\ called.options[1].StartTimeout = 0
    /\ called.options[1].Name = "db"
    /\ built.container.options.StartTimeout = 60

DigitValue(ch) ==
    CASE ch = "0" -> 0 [] ch = "1" -> 1 [] ch = "2" -> 2 [] ch = "3" -> 3
      [] ch = "4" -> 4 [] ch = "5" -> 5 [] ch = "6" -> 6 [] ch = "7" -> 7
      [] ch = "8" -> 8 [] ch = "9" -> 9 [] OTHER -> -1

\* The number that a sequence of digits denotes.
ParseDigits(ds) ==
    LET Value[i \in 0..Len(ds)] ==
            IF i = 0 THEN 0 ELSE 10 * Value[i - 1] + DigitValue(ds[i])
    IN  Value[Len(ds)]

\* text is the base-10 text of n: a '-' for a negative number, then its
\* digits without leading zeros.
IsDecimalOf(text, n) ==
    LET ds == IF n < 0 THEN Tail(text) ELSE text
    IN  /\ text # << >>
        /\ n < 0 => text[1] = "-"
        /\ ds # << >>
        /\ \A i \in DOMAIN ds : DigitValue(ds[i]) >= 0
        /\ Len(ds) > 1 => ds[1] # "0"
        /\ ParseDigits(ds) = IF n < 0 THEN -n ELSE n

\* C19: building a container object from a preset panics exactly if a
\* value of its env declarations is neither an int nor a string; else the
\* environment variables of the object are, in the order of the
\* declarations, the name, '=' and the value: a string as it is, an int as
\* its base-10 text; PGPORT with the int 5432 gives "PGPORT=5432".
C19_EnvFlattening ==
    called.fn \in {"asContainer", "databaseAsContainer"}
    => LET E == preset.Container.Env
           env == built.container.options.EnvironmentVariables
       IN  /\ built.panic <=>
                  \E i \in DOMAIN E : E[i].Value.type \notin {"int", "string"}
           /\ ~built.panic =>
                  /\ Len(env) = Len(E)
                  /\ \A i \in DOMAIN E :
                         LET cut == Cut(env[i], "=")
                         IN  /\ cut.found
                             /\ cut.before = E[i].Name
                             /\ E[i].Value.type = "string"
                                    => cut.after = E[i].Value.string
                             /\ E[i].Value.type = "int"
                                    => IsDecimalOf(cut.after, E[i].Value.int)
           /\ preset = postgresqlPreset => env[3] = Chars("PGPORT=5432")

C19_Witness ==
    /\ called.fn = "databaseAsContainer"
    /\ preset = postgresqlPreset
    /\ ~built.panic
    /\ built.container.options.EnvironmentVariables[3] = Chars("PGPORT=5432")

\* C20 as claimed: after a Create that returned nil, for every string A:B
\* among the exposed ports of the object the container that the engine
\* created has container port A/tcp bound to host port B.
C20_ContainerPortFirst ==
    \A c \in Ctl :
        (Done(c, {"Create"}) /\ ret[c] = "nil")
        => \A i \in DOMAIN ctr[c].options.ExposedPorts :
               LET cut == Cut(ctr[c].options.ExposedPorts[i], ":")
               IN  \E b \in containers[ctr[c].id].ports :
                       /\ b.containerPort = cut.before \o Chars("/tcp")
                       /\ b.hostPort = cut.after

\* C21 as claimed: with no failing library or engine call, Create and
\* CreateStart on an object with an image and with an exposed-port string
\* without ':' return errIncorrectPortConfig and have issued no engine
\* call: no pull and no create.
C21_PortsBeforeEngine ==
    \A c \in Ctl :
        (/\ Done(c, {"Create", "CreateStart"})
         /\ ~faults[c]
         /\ ctr[c].image # ""
         /\ ~PortBindings(ctr[c].options.ExposedPorts).ok)
        => /\ ret[c] = errIncorrectPortConfig
           /\ Count(c, "ImagePull") = 0
           /\ Count(c, "ContainerCreate") = 0

\* C22 as claimed: when Start or CreateStart has used its whole polling
\* budget and the list of the last poll failed, the method returns the
\* error of that list.
C22_LastPollError ==
    \A c \in Ctl :
        (/\ Done(c, {"Start", "CreateStart"})
         /\ Count(c, "ContainerStart") = 1
         /\ ctr[c].options.StartTimeout > 0
         /\ Len(PollLists(c)) = ctr[c].options.StartTimeout
         /\ ListFailed(PollLists(c)[Len(PollLists(c))]))
        => ret[c] = PollLists(c)[Len(PollLists(c))].err

\* C23: a poll of Start whose fetch fails (no container found, or the list
\* failed) does not end the method: never is the error of a poll returned,
\* a failed poll that is not the last of the budget is followed by another
\* poll, and a later poll that finds the container ready makes Start
\* return nil.
C23_PollErrorSwallowed ==
    \A c \in Ctl :
        (Done(c, {"Start", "CreateStart"}) /\ PollLists(c) # << >>)
        => LET L == PollLists(c)
           IN  /\ ret[c] \in {"nil", errContainerStartTimeout}
               /\ \A i \in DOMAIN L :
                      (/\ FetchError(L[i]) # "nil"
                       /\ i < ctr[c].options.StartTimeout)
                      => Len(L) > i
               /\ (/\ \E i \in DOMAIN L : FetchError(L[i]) # "nil"
                   /\ ListedReady(L[Len(L)]))
                      => ret[c] = "nil"

C23_Witness ==
    \E c \in Ctl :
        /\ Done(c, {"Start"})
        /\ Len(PollLists(c)) = 2
        /\ ListFailed(PollLists(c)[1])
        /\ ListedReady(PollLists(c)[2])
        /\ ret[c] = "nil"

\* C27 as claimed: no engine call goes through a handle whose Close has
\* been called: a package-level function that follows one that has closed
\* the handle on its return does not use that handle.
C27_NoCallThroughClosedHandle ==
    \A c \in Ctl : \A i \in DOMAIN log[c] : ~log[c][i].closed

\* C28 as claimed: a Stop that issues an engine call has first listed the
\* container, also when the object already held an id, and its stop
\* command follows that list and carries the id the list returned.
C28_StopRefreshesFirst ==
    \A c \in Ctl :
        (Done(c, {"Stop"}) /\ log[c] # << >>)
        => /\ log[c][1].call = "ContainerList"
           /\ \A i \in DOMAIN log[c] :
                  log[c][i].call = "ContainerStop"
                  => /\ i = 2
                     /\ ListedSome(log[c][1])
                     /\ log[c][i].arg = ctr[c].id

\* C29: a StopRemove whose list finds a container issues a stop command
\* for the id of that container; if the stop fails, StopRemove returns its
\* error and issues no remove command; if it succeeds, a remove command
\* for the same id follows and StopRemove returns what the remove returns.
C29_StopThenRemove ==
    \A c \in Ctl :
        (/\ Done(c, {"StopRemove"})
         /\ Len(log[c]) >= 1
         /\ ListedSome(log[c][1]))
        => /\ Len(log[c]) >= 2
           /\ log[c][2].call = "ContainerStop"
           /\ log[c][2].arg = ctr[c].id
           /\ IF log[c][2].err # "nil"
              THEN /\ Len(log[c]) = 2
                   /\ ret[c] = log[c][2].err
                   /\ Count(c, "ContainerRemove") = 0
              ELSE /\ Len(log[c]) = 3
                   /\ log[c][3].call = "ContainerRemove"
                   /\ log[c][3].arg = log[c][2].arg
                   /\ ret[c] = log[c][3].err

C29_Witness ==
    \E c \in Ctl :
        /\ Done(c, {"StopRemove"})
        /\ Len(log[c]) = 2
        /\ ListedSome(log[c][1])
        /\ log[c][2].call = "ContainerStop"
        /\ log[c][2].err = errContainerStop
        /\ ret[c] = errContainerStop

\* C30 as claimed: no step of a method, a failing Create included, empties
\* the id of an object that holds one.
C30_IdStaysResolved ==
    [][\A c \in Ctl : ctr[c].id # "" => ctr'[c].id # ""]_vars

\* C24 as claimed: when the caller has cancelled the context while Start
\* or CreateStart was waiting for the container, the method has returned
\* by the next poll: at most one poll was made with the cancelled context,
\* the rest of the budget was not used.
C24_CancelAbortsPolling ==
    \A c \in Ctl :
        (Done(c, {"Start", "CreateStart"}) /\ cancelled[c])
        => Cardinality({i \in DOMAIN PollLists(c) :
                           PollLists(c)[i].err = errContextCanceled}) <= 1

\* C25 as claimed: however the first calls of getClient by two goroutines
\* interleave, the factory creates one handle only and every caller gets
\* the client with that handle.
C25_OneHandle ==
    /\ handles <= 1
    /\ \A g1, g2 \in Ctl :
           (held[g1] # 0 /\ held[g2] # 0) => held[g1] = held[g2]

\* C26: a call of the factory that fails makes PullImage return the
\* factory's error without a client and without an engine call, and leaves
\* cli as it was; a call that succeeds creates one handle, which newClient
\* then stores in cli and returns; a getClient that finds cli nil calls the
\* factory (again, after a failure), one that finds a client stored
\* returns that client and does not call the factory.
C26_FactoryResultStored ==
    [][\A g \in Ctl :
          /\ (pc[g] = "getClient_nil" /\ pc'[g] = "idle")
                 => /\ invoked' = invoked + 1
                    /\ ret'[g] = errNewClient
                    /\ held'[g] = 0
                    /\ log'[g] = << >>
                    /\ cli' = cli
                    /\ handles' = handles
          /\ (pc[g] = "getClient_nil" /\ pc'[g] = "newClient_created")
                 => /\ invoked' = invoked + 1
                    /\ handles' = handles + 1
                    /\ held'[g] = handles'
          /\ (pc[g] = "newClient_created" /\ pc'[g] # pc[g])
                 => /\ cli' = held[g]
                    /\ held'[g] = held[g]
                    /\ pc'[g] = "PullImage_client"
          /\ (pc[g] = "idle" /\ pc'[g] # "idle")
                 => IF cli = 0
                    THEN pc'[g] = "getClient_nil" /\ held'[g] = 0
                    ELSE /\ pc'[g] = "PullImage_client"
                         /\ held'[g] = cli
                         /\ invoked' = invoked
                         /\ handles' = handles]_vars

\* One goroutine alone: its first PullImage failed at the factory, a later
\* one called the factory again, got a client and has it stored.
C26_Witness ==
    \E g \in Ctl :
        /\ \A o \in Ctl \ {g} : pc[o] = "idle" /\ held[o] = 0 /\ ~faults[o]
        /\ invoked = 2
        /\ handles = 1
        /\ cli = 1
        /\ held[g] = 1
        /\ pc[g] = "PullImage_client"

\* C37 as claimed: a Create that has returned nil has issued exactly two
\* engine calls: one image pull, then one create.
C37_SinglePull ==
    \A c \in Ctl :
        (Done(c, {"Create"}) /\ ret[c] = "nil")
        => /\ Count(c, "ImagePull") = 1
           /\ Count(c, "ContainerCreate") = 1
           /\ Len(log[c]) = 2
           /\ log[c][1].call = "ImagePull"
           /\ log[c][2].call = "ContainerCreate"

\* What an object holds of its container: id, state and status.
Observed(k) == <<k.id, k.state, k.status>>

\* The positions a method is at after a fetch.
FetchedAt ==
    {"HasStarted_fetched", "Start_fetched", "Start_polled", "Stop_fetched",
     "Remove_fetched", "StopRemove_fetched"}

\* The first container that a list with the filter of log entry e finds
\* in the engine as it is after the step.
FirstListed(e) ==
    LET match(n) == /\ containers'[ToString(n)].state # "absent"
                    /\ IF e.key = "name"
                       THEN containers'[ToString(n)].name = e.arg
                       ELSE ToString(n) = e.arg
    IN  ToString(CHOOSE n \in 1..MaxIds :
                     match(n) /\ \A o \in 1..(n - 1) : ~match(o))

\* C31: a step of a method changes the id, the state and the status of the
\* object only if it is a fetch that returns nil, which sets all three
\* from the first container listed, or the create step of Create, which
\* sets the id only; a fetch that returns an error (no name and no id, a
\* failed list, nothing listed) leaves all three as they were, and so do
\* the steps that issue a start, stop or remove command.
C31_ObservedStateFrame ==
    [][\A c \in Ctl :
          LET fetched == /\ pc'[c] \in FetchedAt
                         /\ pc'[c] # pc[c] \/ log'[c] # log[c]
              last == log'[c][Len(log'[c])]
          IN  /\ (fetched /\ err' = "nil")
                     => /\ log'[c] # << >>
                        /\ ListedSome(last)
                        /\ ctr'[c].id = FirstListed(last)
                        /\ ctr'[c].state = containers'[ctr'[c].id].state
                        /\ ctr'[c].status = StatusOf(containers'[ctr'[c].id])
              /\ (fetched /\ err' # "nil")
                     => Observed(ctr'[c]) = Observed(ctr[c])
              /\ ~fetched
                     => /\ ctr'[c].state = ctr[c].state
                        /\ ctr'[c].status = ctr[c].status
                        /\ ctr'[c].id # ctr[c].id
                               => /\ pc[c] = "Create_pulled"
                                  /\ pc'[c] = "Create_created"]_vars

\* A HasStarted whose list found nothing, on an object that still holds
\* the id and the state that an earlier fetch gave it.
C31_Witness ==
    \E c \in Ctl :
        /\ Done(c, {"HasStarted"})
        /\ ret[c] = errContainerNotFound
        /\ Len(log[c]) = 1
        /\ ListedNone(log[c][1])
        /\ ctr[c].id = "1"
        /\ ctr[c].state = "running"

C35_ResetDatabase ==
    \A c \in Ctl :
        Done(c, {"ResetDatabase"})
        => /\ Count(c, "ContainerList") = 0
           /\ Count(c, "ContainerStart") = 0
           /\ ~faults[c] => log[c] # << >>
           /\ log[c] = << >> => ret[c] = errNewClient
           /\ log[c] # << >>
                  => /\ Count(c, "ContainerExecCreate") = 1
                     /\ log[c][1].call = "ContainerExecCreate"
                     /\ log[c][1].key = database[c].ResetCommand
                     /\ log[c][1].arg = ctr[c].id
                     /\ Len(log[c]) = IF log[c][1].err = "nil" THEN 2 ELSE 1
                     /\ Len(log[c]) = 2
                            => log[c][2].call = "ContainerExecAttach"
                     /\ ret[c] = log[c][Len(log[c])].err

C35_Witness ==
    \E c \in Ctl :
        /\ Done(c, {"ResetDatabase"})
        /\ ret[c] = "nil"
        /\ Len(log[c]) = 2
        /\ log[c][1].key = postgresqlPreset.Database.ResetCommand
        /\ log[c][1].arg = "1"
        /\ ctr[c].id = "1"

\* C36 as claimed: with two objects used by two goroutines, what
\* HasStarted, Stop, Remove and StopRemove return and whether they issue
\* a command is decided by the outcome of their own engine calls: the
\* error of their own failed list, nil (Remove, StopRemove) or
\* errContainerNotFound when their own list found nothing and then no
\* command, and the result of their own command when it found one.
C36_OwnResultsOnly ==
    \A c \in Ctl :
        (/\ Done(c, {"HasStarted", "Stop", "Remove", "StopRemove"})
         /\ Len(log[c]) >= 1
         /\ log[c][1].call = "ContainerList")
        => /\ ListFailed(log[c][1])
                  => Len(log[c]) = 1 /\ ret[c] = log[c][1].err
           /\ ListedNone(log[c][1])
                  => /\ Len(log[c]) = 1
                     /\ ret[c] = IF op[c] \in {"Remove", "StopRemove"}
                                 THEN "nil" ELSE errContainerNotFound
           /\ ListedSome(log[c][1])
                  => IF op[c] = "HasStarted"
                     THEN Len(log[c]) = 1 /\ ret[c] = "nil"
                     ELSE /\ Len(log[c]) >= 2
                          /\ ret[c] = log[c][Len(log[c])].err
====
